---- MODULE Spec2Model ----
(***************************************************************************)
(* DictaPilot smart editor (src/smart_editor.py): the transcript state     *)
(* machine, the command classifier, the normalizer, the adaptive           *)
(* dictionary and the external refinement adapter.                         *)
(*                                                                         *)
(* Text representation.  A Python str is modelled as a sequence of         *)
(* symbols.  A symbol is one of                                            *)
(*   - " "            one whitespace character,                            *)
(*   - "," "." ...    one punctuation character,                           *)
(*   - "foo"          a whole lower-case word (a maximal run of word       *)
(*                    characters, apostrophes included),                   *)
(*   - "^foo"         the same word with its first letter in upper case.   *)
(* Word boundaries (\b) therefore fall exactly between a word symbol and a *)
(* non-word symbol, and str.split() tokens are the maximal runs of         *)
(* non-whitespace symbols.                                                 *)
(***************************************************************************)
EXTENDS Integers, Sequences, FiniteSets, TLC

\* ------------------------------------------------------------------------
\* Symbols
\* ------------------------------------------------------------------------
SP == " "
Whitespace == {" ", "\n"}
Punct == {",", ".", ";", ":", "!", "?"}
SentenceEnd == {".", "!", "?"}

\* every lower-case word the model's inputs and patterns use
Vocab ==
  { "foo", "bar", "all", "that", "this", "it", "clear", "everything",
    "reset", "start", "over", "wipe", "erase", "delete", "previous", "undo",
    "scratch", "remove", "take", "out", "drop", "backspace", "and", "then",
    "instead", "please", "write", "say", "type", "oh", "no", "oops", "hey",
    "ok", "okay", "wait", "well", "uh", "um", "erm", "ah", "hmm", "mm",
    "ignore", "skip", "disregard", "omit", "don't", "do", "not", "include",
    "add", "leave", "cancel", "never", "mind", "nevermind", "replace",
    "change", "swap", "with", "to", "for", "tone", "style", "voice",
    "language", "lang", "polite", "formal", "casual", "friendly", "concise",
    "professional", "natural", "rewrite", "rephrase", "polish", "improve",
    "make", "fix", "correct", "the", "grammar", "spelling", "punctuation",
    "you", "know", "i", "mean", "kind", "sort", "of", "basically",
    "literally", "honestly", "actually", "like", "nope", "sorry", "use",
    "using", "but", "rather", "what", "why", "how", "when", "where", "who",
    "whom", "whose", "which", "is", "are", "am", "does", "did", "can",
    "could", "would", "should", "will", "have", "has", "had", "wow", "great",
    "awesome", "amazing", "congrats", "congratulations", "adelant", "last",
    "sentence", "paragraph", "capitalize", "heading", "bold", "italic",
    "insert", "after", "a", "snippet", "shortcut", "format", "append" }

Cap(w) == "^" \o w
CapVocab == { Cap(w) : w \in Vocab }
Low(c) == IF c \in CapVocab THEN CHOOSE w \in Vocab : c = Cap(w) ELSE c
IsWord(c) == c \in Vocab \/ c \in CapVocab
IsSpace(c) == c \in Whitespace

RECURSIVE LowSeq(_)
LowSeq(t) == IF t = <<>> THEN <<>> ELSE <<Low(Head(t))>> \o LowSeq(Tail(t))

\* the words of a phrase separated by single spaces: Ph(<<"clear","all">>)
RECURSIVE Ph(_)
Ph(ws) ==
  IF ws = <<>> THEN <<>>
  ELSE IF Len(ws) = 1 THEN <<ws[1]>>
  ELSE <<ws[1], SP>> \o Ph(Tail(ws))

Drop(t, n) == IF n >= Len(t) THEN <<>> ELSE SubSeq(t, n + 1, Len(t))
Take(t, n) == IF n >= Len(t) THEN t ELSE SubSeq(t, 1, n)
Front(t) == IF t = <<>> THEN <<>> ELSE SubSeq(t, 1, Len(t) - 1)
Tl(t) == IF t = <<>> THEN <<>> ELSE Tail(t)
StartsWith(t, p) == Len(p) <= Len(t) /\ SubSeq(t, 1, Len(p)) = p

\* the local variables of the code: With([x \in {e} |-> body]) is body with x
\* standing for the value of e, computed once
With(f) == f[CHOOSE value \in DOMAIN f : TRUE]

\* ------------------------------------------------------------------------
\* str.strip, str.lstrip(chars), re.sub(r"\s+", " ", ...)
\* ------------------------------------------------------------------------
RECURSIVE LStripChars(_, _)
LStripChars(t, chars) ==
  IF t # <<>> /\ Head(t) \in chars THEN LStripChars(Tail(t), chars) ELSE t

RECURSIVE RStripChars(_, _)
RStripChars(t, chars) ==
  IF t # <<>> /\ t[Len(t)] \in chars THEN RStripChars(Front(t), chars) ELSE t

Strip(t) == RStripChars(LStripChars(t, Whitespace), Whitespace)

RECURSIVE CollapseSpaces(_)
CollapseSpaces(t) ==
  IF t = <<>> THEN <<>>
  ELSE IF IsSpace(Head(t))
       THEN <<SP>> \o CollapseSpaces(LStripChars(t, Whitespace))
       ELSE <<Head(t)>> \o CollapseSpaces(Tail(t))

_normalize_spaces(t) == Strip(CollapseSpaces(t))

\* str.split(): the maximal runs of non-whitespace symbols
RECURSIVE TakeToken(_)
TakeToken(t) ==
  IF t = <<>> \/ IsSpace(Head(t)) THEN <<>>
  ELSE <<Head(t)>> \o TakeToken(Tail(t))

RECURSIVE Split(_)
Split(t) ==
  With([s \in {LStripChars(t, Whitespace)} |->
    IF s = <<>> THEN <<>>
    ELSE With([tok \in {TakeToken(s)} |-> <<tok>> \o Split(Drop(s, Len(tok)))])])

\* " ".join(parts)
RECURSIVE JoinSp(_)
JoinSp(parts) ==
  IF parts = <<>> THEN <<>>
  ELSE IF Len(parts) = 1 THEN parts[1]
  ELSE parts[1] \o <<SP>> \o JoinSp(Tail(parts))

RECURSIVE StripNonEmpty(_)
StripNonEmpty(segs) ==
  IF segs = <<>> THEN <<>>
  ELSE IF Strip(Head(segs)) = <<>> THEN StripNonEmpty(Tail(segs))
  ELSE <<Strip(Head(segs))>> \o StripNonEmpty(Tail(segs))

_join_segments(segs) == Strip(JoinSp(StripNonEmpty(segs)))

\* ------------------------------------------------------------------------
\* Regular-expression helpers on symbol sequences
\* ------------------------------------------------------------------------
\* case-insensitive match of the literal phrase p at the head of t
MatchAt(t, p) == Len(p) <= Len(t) /\ LowSeq(SubSeq(t, 1, Len(p))) = p

\* ... followed by a word boundary (\b)
MatchB(t, p) == MatchAt(t, p) /\ (Len(t) = Len(p) \/ ~IsWord(t[Len(p) + 1]))

\* index of the first alternative of an ordered alternation that matches
FirstMatch(t, phrases) ==
  IF \E k \in 1..Len(phrases) : MatchB(t, phrases[k])
  THEN CHOOSE k \in 1..Len(phrases) :
         MatchB(t, phrases[k]) /\ \A j \in 1..(k - 1) : ~MatchB(t, phrases[j])
  ELSE 0

\* pattern.sub(repl, t) for r"\b(?:p1|p2|...)\b"; prev is the symbol before t
RECURSIVE SubPhrases(_, _, _, _)
SubPhrases(t, prev, phrases, repl) ==
  IF t = <<>> THEN <<>>
  ELSE With([k \in {IF IsWord(prev) THEN 0 ELSE FirstMatch(t, phrases)} |->
         IF k > 0
         THEN repl \o SubPhrases(Drop(t, Len(phrases[k])), t[Len(phrases[k])],
                                 phrases, repl)
         ELSE <<Head(t)>> \o SubPhrases(Tail(t), Head(t), phrases, repl)])

\* r"^(?:(?:p1|p2|...)\b[seps]*)+" removed from the head of t
RECURSIVE StripLeading(_, _, _)
StripLeading(t, phrases, seps) ==
  With([k \in {FirstMatch(t, phrases)} |->
    IF k = 0 THEN t
    ELSE StripLeading(LStripChars(Drop(t, Len(phrases[k])), seps), phrases, seps)])

\* ------------------------------------------------------------------------
\* Configuration read from the environment at import time (defaults)
\* ------------------------------------------------------------------------
DICTATION_MODE == "accurate"
CLEANUP_LEVEL == "aggressive"
CLEANUP_STRICTNESS == "balanced"
CONFIDENCE_THRESHOLD == 65          \* 0.65, confidences are in percent
USER_ADAPTATION_ENABLED == TRUE
ADAPTIVE_MIN_COUNT == 2
LLM_ALWAYS_CLEAN == TRUE
VALID_ACTIONS == {"append", "undo", "undo_append", "clear", "ignore"}
QUESTION_STARTERS ==
  { "what", "why", "how", "when", "where", "who", "whom", "whose", "which",
    "is", "are", "am", "do", "does", "did", "can", "could", "would", "should",
    "will", "have", "has", "had" }
EXCLAMATION_STARTERS ==
  { "wow", "great", "awesome", "amazing", "congrats", "congratulations" }

NoConf == 0 - 1                     \* transcription_confidence is None

\* ------------------------------------------------------------------------
\* Normalizer
\* ------------------------------------------------------------------------
NoLevel == ""                       \* cleanup_level is None (or empty)

\* (cleanup_level or CLEANUP_LEVEL), anything but the three levels is balanced
ConfiguredLevel(cleanup_level) ==
  With([level \in {IF cleanup_level = NoLevel THEN CLEANUP_LEVEL ELSE cleanup_level} |->
    IF level \in {"basic", "balanced", "aggressive"} THEN level ELSE "balanced"])

\* fault: the last test, which takes aggressive back at low confidence, is left out
EffectiveCleanupLevel_no_downgrade(strictness, conf, cleanup_level) ==
  With([l0 \in {ConfiguredLevel(cleanup_level)} |->
  With([low \in {conf # NoConf /\ conf < CONFIDENCE_THRESHOLD} |->
  With([high \in {conf # NoConf /\ conf >= CONFIDENCE_THRESHOLD} |->
    IF strictness = "conservative"
    THEN (IF l0 = "aggressive" THEN "balanced"
          ELSE IF l0 = "balanced" /\ low THEN "basic" ELSE l0)
    ELSE IF strictness = "aggressive"
    THEN (IF l0 = "balanced" /\ high THEN "aggressive" ELSE l0)
    ELSE l0])])])

\* fault: a confidence equal to the threshold counts as low
EffectiveCleanupLevel_threshold_low(strictness, conf, cleanup_level) ==
  With([l0 \in {ConfiguredLevel(cleanup_level)} |->
  With([low \in {conf # NoConf /\ conf <= CONFIDENCE_THRESHOLD} |->
  With([high \in {conf # NoConf /\ conf > CONFIDENCE_THRESHOLD} |->
  With([l1 \in {IF strictness = "conservative"
       THEN (IF l0 = "aggressive" THEN "balanced"
             ELSE IF l0 = "balanced" /\ low THEN "basic" ELSE l0)
       ELSE IF strictness = "aggressive"
       THEN (IF l0 = "balanced" /\ high THEN "aggressive" ELSE l0)
       ELSE l0} |->
    IF low /\ l1 = "aggressive" THEN "balanced" ELSE l1])])])])

\* the body of _effective_cleanup_level with CLEANUP_STRICTNESS as strictness
EffectiveCleanupLevel(strictness, conf, cleanup_level) ==
  With([l0 \in {ConfiguredLevel(cleanup_level)} |->
  With([low \in {conf # NoConf /\ conf < CONFIDENCE_THRESHOLD} |->
  With([high \in {conf # NoConf /\ conf >= CONFIDENCE_THRESHOLD} |->
  With([l1 \in {IF strictness = "conservative"
       THEN (IF l0 = "aggressive" THEN "balanced"
             ELSE IF l0 = "balanced" /\ low THEN "basic" ELSE l0)
       ELSE IF strictness = "aggressive"
       THEN (IF l0 = "balanced" /\ high THEN "aggressive" ELSE l0)
       ELSE l0} |->
    IF low /\ l1 = "aggressive" THEN "balanced" ELSE l1])])])])

_effective_cleanup_level(conf, cleanup_level) ==
  EffectiveCleanupLevel(CLEANUP_STRICTNESS, conf, cleanup_level)

_FILLER_PHRASE_RE ==
  << Ph(<<"you", "know">>), Ph(<<"i", "mean">>), Ph(<<"kind", "of">>),
     Ph(<<"sort", "of">>) >>
_FILLER_WORD_RE == << <<"uh">>, <<"um">>, <<"erm">>, <<"ah">>, <<"hmm">>, <<"mm">> >>
_AGGRESSIVE_FILLER_RE ==
  << <<"basically">>, <<"literally">>, <<"honestly">>, <<"actually">>, <<"like">> >>
_CONTENT_FILLER_RE == << <<"uh">>, <<"um">>, <<"erm">>, <<"ah">>, <<"hmm">> >>
PrefaceSeps == {" ", ",", "-", ".", ":", ";"}

\* _REPEATED_WORD_RE.sub(first word)
RECURSIVE SkipRepeats(_, _)
SkipRepeats(t, w) ==
  With([s \in {LStripChars(t, Whitespace)} |->
    IF s # t /\ s # <<>> /\ IsWord(Head(s)) /\ Low(Head(s)) = Low(w)
       /\ (Len(s) = 1 \/ ~IsWord(s[2]))
    THEN SkipRepeats(Tail(s), w)
    ELSE t])

RECURSIVE _REPEATED_WORD_RE_sub(_, _)
_REPEATED_WORD_RE_sub(t, prev) ==
  IF t = <<>> THEN <<>>
  ELSE IF IsWord(Head(t)) /\ ~IsWord(prev)
       THEN <<Head(t)>> \o _REPEATED_WORD_RE_sub(SkipRepeats(Tail(t), Head(t)), Head(t))
       ELSE <<Head(t)>> \o _REPEATED_WORD_RE_sub(Tail(t), Head(t))

\* _REPEATED_PUNCT_RE.sub(one mark)
RECURSIVE _REPEATED_PUNCT_RE_sub(_)
_REPEATED_PUNCT_RE_sub(t) ==
  IF t = <<>> THEN <<>>
  ELSE IF Head(t) \in Punct
       THEN <<Head(t)>> \o _REPEATED_PUNCT_RE_sub(LStripChars(Tail(t), {Head(t)}))
       ELSE <<Head(t)>> \o _REPEATED_PUNCT_RE_sub(Tail(t))

\* length of the prefix of t made of n words separated by whitespace, 0 if none
RECURSIVE PhraseLen(_, _)
PhraseLen(t, n) ==
  IF t = <<>> \/ ~IsWord(Head(t)) THEN 0
  ELSE IF n = 1 THEN 1
  ELSE With([s \in {LStripChars(Tail(t), Whitespace)} |->
       With([rest \in {IF Len(t) - 1 - Len(s) = 0 THEN 0 ELSE PhraseLen(s, n - 1)} |->
         IF rest = 0 THEN 0 ELSE 1 + (Len(t) - 1 - Len(s)) + rest])])

\* length of the run (\s+phrase\b)+ at the head of t, 0 if none
RECURSIVE RepeatsLen(_, _)
RepeatsLen(t, phrase) ==
  With([s \in {LStripChars(t, Whitespace)} |->
    IF s # t /\ MatchB(s, LowSeq(phrase))
    THEN (Len(t) - Len(s)) + Len(phrase) + RepeatsLen(Drop(s, Len(phrase)), phrase)
    ELSE 0])

\* the phrase of n words at the head of t is followed by repeats of itself
DedupeOk(t, pl) ==
  /\ pl > 0
  /\ (Len(t) = pl \/ ~IsWord(t[pl + 1]))
  /\ RepeatsLen(Drop(t, pl), Take(t, pl)) > 0

\* the length of the phrase (4, 3 or 2 words, greedy) that matches at the head
\* of t, 0 if none
DedupeAt(t) ==
  CHOOSE pl \in {PhraseLen(t, n) : n \in 2..4} \cup {0} :
    /\ pl = 0 \/ DedupeOk(t, pl)
    /\ \A n \in 2..4 : DedupeOk(t, PhraseLen(t, n)) => PhraseLen(t, n) <= pl

RECURSIVE DedupeFrom(_, _)
DedupeFrom(t, prev) ==
  IF t = <<>> THEN <<>>
  ELSE With([pl \in {IF IsWord(prev) THEN 0 ELSE DedupeAt(t)} |->
       With([rl \in {IF pl > 0 THEN RepeatsLen(Drop(t, pl), Take(t, pl)) ELSE 0} |->
         IF pl > 0
         THEN Take(t, pl) \o DedupeFrom(Drop(t, pl + rl), t[pl + rl])
         ELSE <<Head(t)>> \o DedupeFrom(Tail(t), Head(t))])])

_dedupe_repeated_phrases(t) == DedupeFrom(t, SP)

\* re.sub(r"\s+([,.;:!?])", r"\1", t)
RECURSIVE NoSpaceBeforePunct(_)
NoSpaceBeforePunct(t) ==
  IF t = <<>> THEN <<>>
  ELSE IF IsSpace(Head(t))
       THEN With([s \in {LStripChars(t, Whitespace)} |->
              IF s # <<>> /\ Head(s) \in Punct
              THEN <<Head(s)>> \o NoSpaceBeforePunct(Tail(s))
              ELSE SubSeq(t, 1, Len(t) - Len(s)) \o NoSpaceBeforePunct(s)])
       ELSE <<Head(t)>> \o NoSpaceBeforePunct(Tail(t))

\* re.sub(r"([,.;:!?])([^\s])", r"\1 \2", t)
RECURSIVE SpaceAfterPunct(_)
SpaceAfterPunct(t) ==
  IF t = <<>> THEN <<>>
  ELSE IF Head(t) \in Punct /\ Len(t) > 1 /\ ~IsSpace(t[2])
       THEN <<t[1], SP, t[2]>> \o SpaceAfterPunct(Drop(t, 2))
       ELSE <<Head(t)>> \o SpaceAfterPunct(Tail(t))

\* the body of _cleanup_disfluencies with CLEANUP_STRICTNESS as strictness
CleanupDisfluencies(strictness, text, conf, cleanup_level) ==
  With([c0 \in {_normalize_spaces(text)} |->
  With([effective_level \in {EffectiveCleanupLevel(strictness, conf, cleanup_level)} |->
    IF c0 = <<>> THEN <<>>
    ELSE
      With([c2 \in {SubPhrases(SubPhrases(c0, SP, _FILLER_PHRASE_RE, <<SP>>),
                      SP, _FILLER_WORD_RE, <<SP>>)} |->
      With([c3 \in {IF effective_level = "aggressive"
           THEN SubPhrases(c2, SP, _AGGRESSIVE_FILLER_RE, <<SP>>) ELSE c2} |->
      With([c5 \in {_REPEATED_PUNCT_RE_sub(_REPEATED_WORD_RE_sub(c3, SP))} |->
      With([c6 \in {IF effective_level = "aggressive"
           THEN _dedupe_repeated_phrases(c5) ELSE c5} |->
        Strip(CollapseSpaces(SpaceAfterPunct(NoSpaceBeforePunct(c6))))])])])])])])

_cleanup_disfluencies(text, conf, cleanup_level) ==
  CleanupDisfluencies(CLEANUP_STRICTNESS, text, conf, cleanup_level)

RECURSIVE CapitalizeFrom(_, _)
CapitalizeFrom(t, capitalize_next) ==
  IF t = <<>> THEN <<>>
  ELSE With([ch \in {Head(t)} |->
       With([up \in {capitalize_next /\ IsWord(ch)} |->
         << IF up /\ ch \in Vocab THEN Cap(ch) ELSE ch >>
         \o CapitalizeFrom(Tail(t), IF ch \in SentenceEnd THEN TRUE
                                    ELSE IF up THEN FALSE ELSE capitalize_next)])])

_capitalize_sentences(t) == CapitalizeFrom(t, TRUE)

RECURSIVE FirstWord(_)
FirstWord(t) ==
  IF t = <<>> THEN ""
  ELSE IF IsWord(Head(t)) THEN Low(Head(t)) ELSE FirstWord(Tail(t))

_terminal_punctuation(t) ==
  With([first_word \in {FirstWord(t)} |->
    IF first_word \in QUESTION_STARTERS THEN "?"
    ELSE IF first_word \in EXCLAMATION_STARTERS THEN "!"
    ELSE "."])

_polish_punctuation(text) ==
  With([c0 \in {_normalize_spaces(text)} |->
    IF c0 = <<>> THEN <<>>
    ELSE With([c1 \in {_capitalize_sentences(SpaceAfterPunct(NoSpaceBeforePunct(c0)))} |->
           IF c1[Len(c1)] \notin SentenceEnd
           THEN c1 \o <<_terminal_punctuation(c1)>> ELSE c1])])

_normalize_segment(text, conf) ==
  _polish_punctuation(
    _cleanup_disfluencies(
      Strip(StripLeading(_normalize_spaces(text), _CONTENT_FILLER_RE, PrefaceSeps)),
      conf, CLEANUP_LEVEL))

\* ------------------------------------------------------------------------
\* Personal and adaptive dictionaries
\* ------------------------------------------------------------------------
\* An adaptive bucket is the JSON object of one scope in insertion order:
\* a sequence of entries [key |-> trigger, to |-> replacement, count |-> n].
NoApp == "none"                      \* ctx.app_id is None
_DEFAULT_DICTIONARY == << [key |-> <<"adelant">>, to |-> <<"^adelant">>] >>

\* dict.update for one key of an insertion-ordered mapping
RECURSIVE DictSet(_, _, _)
DictSet(m, k, v) ==
  IF m = <<>> THEN << [key |-> k, to |-> v] >>
  ELSE IF Head(m).key = k THEN << [key |-> k, to |-> v] >> \o Tail(m)
  ELSE <<Head(m)>> \o DictSet(Tail(m), k, v)

RECURSIVE DictUpdate(_, _)
DictUpdate(m, other) ==
  IF other = <<>> THEN m
  ELSE DictUpdate(DictSet(m, Head(other).key, Head(other).to), Tail(other))

\* fault: every learned entry is used, whatever its count
RECURSIVE Promoted_any_count(_)
Promoted_any_count(bucket) ==
  IF bucket = <<>> THEN <<>>
  ELSE << [key |-> Head(bucket).key, to |-> Head(bucket).to] >>
       \o Promoted_any_count(Tail(bucket))

\* the promoted entries of one bucket, as a mapping
RECURSIVE Promoted(_)
Promoted(bucket) ==
  IF bucket = <<>> THEN <<>>
  ELSE IF Head(bucket).count >= ADAPTIVE_MIN_COUNT
       THEN << [key |-> Head(bucket).key, to |-> Head(bucket).to] >>
            \o Promoted(Tail(bucket))
       ELSE Promoted(Tail(bucket))

RECURSIVE NonEmptyEntries(_)
NonEmptyEntries(m) ==
  IF m = <<>> THEN <<>>
  ELSE IF Head(m).key # <<>> /\ Head(m).to # <<>>
       THEN <<Head(m)>> \o NonEmptyEntries(Tail(m))
       ELSE NonEmptyEntries(Tail(m))

\* fault: the global entries are merged over the per-app ones
_adaptive_dictionary_global_last(store, app_id) ==
  IF ~USER_ADAPTATION_ENABLED THEN <<>>
  ELSE NonEmptyEntries(IF app_id # NoApp
                       THEN DictUpdate(Promoted(store.app), Promoted(store.global))
                       ELSE Promoted(store.global))

_adaptive_dictionary(store, app_id) ==
  IF ~USER_ADAPTATION_ENABLED THEN <<>>
  ELSE NonEmptyEntries(IF app_id # NoApp
                       THEN DictUpdate(Promoted(store.global), Promoted(store.app))
                       ELSE Promoted(store.global))

\* pattern.sub(value, t) for the escaped literal key, without word boundaries
RECURSIVE SubPlain(_, _, _)
SubPlain(t, key, value) ==
  IF t = <<>> THEN <<>>
  ELSE IF MatchAt(t, key)
       THEN value \o SubPlain(Drop(t, Len(key)), key, value)
       ELSE <<Head(t)>> \o SubPlain(Tail(t), key, value)

\* re.match(r"^[A-Za-z0-9]+$", key)
IsAlnumKey(key) == Len(key) = 1 /\ key[1] \in Vocab /\ key[1] # "don't"

RECURSIVE ApplyMapping(_, _)
ApplyMapping(t, m) ==
  IF m = <<>> THEN t
  ELSE With([key \in {Head(m).key} |->
       With([value \in {Head(m).to} |->
         ApplyMapping(IF key = <<>> THEN t
                      ELSE IF IsAlnumKey(key)
                           THEN SubPhrases(t, SP, <<key>>, value)
                           ELSE SubPlain(t, key, value),
                      Tail(m))])])

_apply_personal_dictionary(store, text, app_id) ==
  With([mapping \in {IF USER_ADAPTATION_ENABLED
       THEN DictUpdate(_DEFAULT_DICTIONARY, _adaptive_dictionary(store, app_id))
       ELSE _DEFAULT_DICTIONARY} |->
    IF mapping = <<>> \/ text = <<>> THEN text ELSE ApplyMapping(text, mapping)])

\* bucket.setdefault(target_key, ...); entry["to"] = ...; entry["count"] += 1
RECURSIVE BucketLearn(_, _, _)
BucketLearn(bucket, k, v) ==
  IF bucket = <<>> THEN << [key |-> k, to |-> v, count |-> 1] >>
  ELSE IF Head(bucket).key = k
       THEN << [key |-> k, to |-> v, count |-> Head(bucket).count + 1] >> \o Tail(bucket)
       ELSE <<Head(bucket)>> \o BucketLearn(Tail(bucket), k, v)

_learn_adaptive_replacement(store, target, replacement, app_id) ==
  With([target_key \in {LowSeq(_normalize_spaces(target))} |->
  With([replacement_clean \in {_normalize_spaces(replacement)} |->
    IF ~USER_ADAPTATION_ENABLED THEN store
    ELSE IF target_key = <<>> \/ replacement_clean = <<>> THEN store
    ELSE IF target_key = LowSeq(replacement_clean) THEN store
    ELSE IF app_id # NoApp
         THEN [store EXCEPT !.app = BucketLearn(@, target_key, replacement_clean)]
         ELSE [store EXCEPT !.global = BucketLearn(@, target_key, replacement_clean)]])])

\* ------------------------------------------------------------------------
\* Command classifier patterns
\* ------------------------------------------------------------------------
_COMMAND_PREFACE_RE ==
  << Ph(<<"oh", "no">>), <<"oops">>, <<"please">>, <<"hey">>, <<"okay">>, <<"ok">>,
     <<"wait">>, <<"well">>, <<"uh">>, <<"um">>, <<"hmm">> >>

_strip_command_preface(text) ==
  Strip(StripLeading(_normalize_spaces(text), _COMMAND_PREFACE_RE, PrefaceSeps))

_UNDO_RE ==
  << Ph(<<"delete", "that">>), Ph(<<"delete", "previous">>), Ph(<<"undo", "that">>),
     <<"undo">>, Ph(<<"scratch", "that">>), Ph(<<"remove", "that">>),
     Ph(<<"remove", "previous">>), Ph(<<"take", "that", "out">>),
     Ph(<<"erase", "that">>), Ph(<<"drop", "that">>), Ph(<<"backspace", "that">>) >>

UndoMatches(t) == FirstMatch(t, _UNDO_RE) > 0
UndoRest(t) == Drop(t, Len(_UNDO_RE[FirstMatch(t, _UNDO_RE)]))

_CLEAR_RE ==
  << Ph(<<"clear", "all">>), Ph(<<"clear", "everything">>), Ph(<<"reset", "all">>),
     <<"reset">>, Ph(<<"start", "over">>), Ph(<<"wipe", "all">>),
     Ph(<<"wipe", "everything">>), Ph(<<"erase", "all">>) >>
_CLEAR_SIMPLE_RE == << <<"clear">>, <<"reset">>, <<"wipe">> >>

\* ^(?:p1|p2|...)\b[\s,.!?:;-]*$
MatchesWithTail(t, phrases) ==
  \E k \in 1..Len(phrases) :
     /\ MatchB(t, phrases[k])
     /\ \A i \in (Len(phrases[k]) + 1)..Len(t) : t[i] \in {" ", ",", ".", "!", "?", ":", ";", "-"}

ClearMatches(t) == MatchesWithTail(t, _CLEAR_RE) \/ MatchesWithTail(t, _CLEAR_SIMPLE_RE)

_IGNORE_RE ==
  << Ph(<<"don't", "include">>), Ph(<<"do", "not", "include">>), Ph(<<"don't", "add">>),
     Ph(<<"do", "not", "add">>), <<"ignore">>, <<"skip">>, <<"disregard">>, <<"omit">>,
     Ph(<<"leave", "that", "out">>), Ph(<<"leave", "this", "out">>),
     Ph(<<"leave", "it", "out">>), Ph(<<"cancel", "that">>), <<"nevermind">>,
     Ph(<<"never", "mind">>) >>
IgnoreMatches(t) == FirstMatch(t, _IGNORE_RE) > 0

_IGNORE_TRAILING_RE ==
  << <<"ignore">>, <<"skip">>, <<"disregard">>, <<"omit">>, Ph(<<"don't", "include">>),
     Ph(<<"do", "not", "include">>), Ph(<<"don't", "add">>), Ph(<<"do", "not", "add">>),
     <<"nevermind">>, Ph(<<"never", "mind">>) >>

\* ^(?P<before>.*?)\b(?:phrase(?: that| this| it)?)\s*$
IgnoreTrailingMatches(t) ==
  \E s \in {RStripChars(t, Whitespace)} :
    \E i \in 1..Len(s) :
       /\ (i = 1 \/ ~IsWord(s[i - 1]))
       /\ \E tail \in {LowSeq(Drop(s, i - 1))} :
            \E k \in 1..Len(_IGNORE_TRAILING_RE) :
               \/ tail = _IGNORE_TRAILING_RE[k]
               \/ \E o \in {"that", "this", "it"} : tail = _IGNORE_TRAILING_RE[k] \o <<SP, o>>

\* ^(?:replace|change|swap)\s+(?P<target>.+?)\s+(?:with|to|for)\s+(?P<replacement>.+)$
ReplaceLinkAt(t) ==
  With([cands \in {{ j \in 5..(Len(t) - 2) :
           /\ IsSpace(t[j - 1]) /\ Low(t[j]) \in {"with", "to", "for"}
           /\ IsSpace(t[j + 1])
           /\ \E i \in 3..(j - 2) : ~IsSpace(t[i])
           /\ \E i \in (j + 2)..Len(t) : TRUE }} |->
    IF Len(t) >= 2 /\ Low(t[1]) \in {"replace", "change", "swap"} /\ IsSpace(t[2]) /\ cands # {}
    THEN CHOOSE j \in cands : \A j2 \in cands : j <= j2
    ELSE 0])
ReplaceMatches(t) == ReplaceLinkAt(t) > 0
ReplaceTarget(t) ==
  LStripChars(RStripChars(SubSeq(t, 3, ReplaceLinkAt(t) - 1), Whitespace), Whitespace)
ReplaceReplacement(t) == LStripChars(Drop(t, ReplaceLinkAt(t)), Whitespace)

\* _detect_setting_command: "tone", "language" or "none", with its value
_detect_setting_command(utterance) ==
  With([n \in {_normalize_spaces(utterance)} |->
    IF n = <<>> THEN [type |-> "none", value |-> <<>>]
    ELSE IF Len(n) >= 3 /\ Low(n[1]) \in {"tone", "style", "voice"} /\ IsSpace(n[2])
         THEN [type |-> "tone", value |-> LowSeq(Strip(Drop(n, 2)))]
    ELSE IF Len(n) >= 3 /\ Low(n[1]) \in {"polite", "formal", "casual", "friendly", "concise"} /\ IsSpace(n[2])
            /\ MatchB(Drop(n, 2), <<"tone">>)
         THEN [type |-> "tone", value |-> <<Low(n[1])>>]
    ELSE IF Len(n) >= 3 /\ Low(n[1]) \in {"language", "lang"} /\ IsSpace(n[2])
         THEN [type |-> "language", value |-> LowSeq(Strip(Drop(n, 2)))]
    ELSE [type |-> "none", value |-> <<>>]])

\* _detect_transform_command: "grammar", "rewrite" or "none"
RewriteVerbs == << Ph(<<"make", "it">>), <<"rewrite">>, <<"rephrase">>, <<"polish">>,
                   <<"improve">>, <<"make">> >>
_detect_transform_command(utterance) ==
  With([n \in {_normalize_spaces(utterance)} |->
  With([noun \in {IF MatchAt(Drop(n, 2), <<"the", SP>>) THEN Drop(n, 4) ELSE Drop(n, 2)} |->
    IF n = <<>> THEN "none"
    ELSE IF /\ Len(n) >= 3 /\ Low(n[1]) \in {"fix", "correct"} /\ IsSpace(n[2])
            /\ \E g \in {"grammar", "spelling", "punctuation"} : MatchB(noun, <<g>>)
         THEN "grammar"
    \* verb, whitespace, then a word boundary: the next symbol is a word
    ELSE IF \E k \in 1..Len(RewriteVerbs) :
               /\ MatchAt(n, RewriteVerbs[k] \o <<SP>>)
               /\ Len(n) > Len(RewriteVerbs[k]) + 1
               /\ IsWord(n[Len(RewriteVerbs[k]) + 2])
         THEN "rewrite"
    ELSE "none"])])

_SNIPPET_RE == {"insert", "snippet", "shortcut"}

\* ------------------------------------------------------------------------
\* Inline self-correction rewriter
\* ------------------------------------------------------------------------
\* word boundary between two neighbouring symbols ("" stands for no symbol)
WB(a, b) == IsWord(a) # IsWord(b)
SymAt(t, i) == IF i >= 1 /\ i <= Len(t) THEN t[i] ELSE ""

\* start positions of the non-overlapping matches of r"\btarget\b" from i on
RECURSIVE MatchPositions(_, _, _)
MatchPositions(t, target, i) ==
  IF i + Len(target) - 1 > Len(t) THEN <<>>
  ELSE IF /\ LowSeq(SubSeq(t, i, i + Len(target) - 1)) = LowSeq(target)
          /\ WB(SymAt(t, i - 1), target[1])
          /\ WB(target[Len(target)], SymAt(t, i + Len(target)))
       THEN <<i>> \o MatchPositions(t, target, i + Len(target))
       ELSE MatchPositions(t, target, i + 1)

_replace_last_case_insensitive(text, target, replacement) ==
  IF text = <<>> \/ target = <<>> THEN text
  ELSE With([matches \in {MatchPositions(text, target, 1)} |->
         IF matches = <<>> THEN text
         ELSE With([last \in {matches[Len(matches)]} |->
                Take(text, last - 1) \o replacement
                  \o Drop(text, last + Len(target) - 1)])])

\* [A-Za-z0-9][A-Za-z0-9+#.\-]* : length of the longest such run at the head
IsAlnumWord(c) == IsWord(c) /\ Low(c) # "don't"
RECURSIVE RunLen(_)
RunLen(t) ==
  IF t # <<>> /\ (IsAlnumWord(Head(t)) \/ Head(t) \in {"+", "#", ".", "-"})
  THEN 1 + RunLen(Tail(t)) ELSE 0
TokenRun(t) == IF t # <<>> /\ IsAlnumWord(Head(t)) THEN RunLen(t) ELSE 0

WsLen(t) == Len(t) - Len(LStripChars(t, Whitespace))
\* \s*,?\s*
SkipCommaWs(t) ==
  With([a \in {LStripChars(t, Whitespace)} |->
    IF a # <<>> /\ Head(a) = "," THEN LStripChars(Tail(a), Whitespace) ELSE a])

\* (?:(?:w1|w2|...)\s+)?TOKEN : <<symbols skipped before the token, token length>>
GroupThenToken(t, groupWords) ==
  With([b \in {LStripChars(Tl(t), Whitespace)} |->
  With([run \in {TokenRun(b)} |->
    IF t # <<>> /\ Low(Head(t)) \in groupWords /\ WsLen(Tl(t)) > 0 /\ run > 0
    THEN <<Len(t) - Len(b), run>>
    ELSE <<0, TokenRun(t)>>])])

\* _USE_NOT_USE_INLINE_RE at the head of t: <<match length, right>>, length 0 if none
\* with the wrong token being the first wl symbols of a (the text after the
\* verb): whether the rest of the pattern matches, and what it captures
UseNotTail(t, a, wl) ==
  With([c \in {SkipCommaWs(Drop(a, wl))} |->
  With([d \in {LStripChars(Tl(c), Whitespace)} |->
  With([e \in {SkipCommaWs(Drop(d, wl))} |->
  With([g \in {GroupThenToken(e, {"use", "using", "with"})} |->
    [ok |-> /\ c # <<>> /\ Low(Head(c)) = "not" /\ WsLen(Tl(c)) > 0
            /\ MatchAt(d, LowSeq(Take(a, wl)))
            /\ g[2] > 0,
     wl |-> wl,
     len |-> (Len(t) - Len(e)) + g[1] + g[2],
     right |-> SubSeq(e, g[1] + 1, g[1] + g[2])]])])])])

UseNotAt(t) ==
  With([a \in {LStripChars(Tl(t), Whitespace)} |->
  With([tails \in {{ r \in { UseNotTail(t, a, wl) : wl \in 1..TokenRun(a) } : r.ok }} |->
    IF t # <<>> /\ Low(Head(t)) \in {"use", "using"} /\ WsLen(Tl(t)) > 0 /\ tails # {}
    THEN With([m \in {CHOOSE x \in tails : \A y \in tails : y.wl <= x.wl} |->
           <<m.len, m.right>>])
    ELSE <<0, <<>>>>])])

RECURSIVE RewriteNotUseFrom(_, _)
RewriteNotUseFrom(t, prev) ==
  IF t = <<>> THEN <<>>
  ELSE With([m \in {IF IsWord(prev) THEN <<0, <<>>>> ELSE UseNotAt(t)} |->
         IF m[1] > 0
         THEN <<Head(t), SP>> \o m[2] \o RewriteNotUseFrom(Drop(t, m[1]), t[m[1]])
         ELSE <<Head(t)>> \o RewriteNotUseFrom(Tail(t), Head(t))])

_rewrite_not_use_inline(text) == RewriteNotUseFrom(text, SP)

\* re.findall(r"[^.?!]+[.?!]?", text), each part stripped, empty parts dropped
RECURSIVE NonTermLen(_)
NonTermLen(t) ==
  IF t = <<>> \/ Head(t) \in SentenceEnd THEN 0 ELSE 1 + NonTermLen(Tail(t))

RECURSIVE Clauses(_)
Clauses(t) ==
  IF t = <<>> THEN <<>>
  ELSE IF Head(t) \in SentenceEnd THEN Clauses(Tail(t))
  ELSE With([n \in {NonTermLen(t)} |->
       With([m \in {IF n < Len(t) THEN n + 1 ELSE n} |->
       With([part \in {Strip(Take(t, m))} |->
         (IF part = <<>> THEN <<>> ELSE <<part>>) \o Clauses(Drop(t, m))])])])

\* _INLINE_CORRECTION_RE.match(clause).end(), 0 if no match
RECURSIVE SkipOhs(_)
SkipOhs(t) ==
  IF t # <<>> /\ Low(Head(t)) \in {"oh", "uh", "um"} /\ WsLen(Tail(t)) > 0
  THEN SkipOhs(LStripChars(Tail(t), Whitespace)) ELSE t

RECURSIVE SkipNos(_)
SkipNos(t) ==
  With([a \in {SkipCommaWs(t)} |->
    IF a # <<>> /\ Low(Head(a)) = "no" THEN SkipNos(Tail(a)) ELSE t])

InlineMarkers == << Ph(<<"i", "mean">>), <<"nope">>, <<"sorry">>, <<"actually">> >>

\* the alternatives of (?:(?:oh|uh|um)\s+)* are tried greedily, then fewer
RECURSIVE MarkerEndFrom(_, _)
MarkerEndFrom(clause, a) ==
  With([nos \in {IF a # <<>> /\ Low(Head(a)) = "no" THEN SkipNos(Tail(a)) ELSE <<>>} |->
  With([k \in {FirstMatch(a, InlineMarkers)} |->
  With([afterMarker \in {IF a # <<>> /\ Low(Head(a)) = "no" /\ ~IsWord(SymAt(nos, 1))
       THEN nos
       ELSE IF a # <<>> /\ Low(Head(a)) = "no" /\ ~IsWord(SymAt(a, 2))
       THEN Tail(a)
       ELSE IF k > 0
       THEN Drop(a, Len(InlineMarkers[k]))
       ELSE <<"?">>} |->
    IF afterMarker # <<"?">>
    THEN Len(clause) - Len(LStripChars(afterMarker, {" ", ",", ":", "-"}))
    ELSE 0])])])

MarkerEnd(clause) ==
  With([s \in {LStripChars(clause, Whitespace)} |->
  With([full \in {MarkerEndFrom(clause, SkipOhs(s))} |->
    IF full > 0 THEN full ELSE MarkerEndFrom(clause, s)])])

\* _NEGATION_REPLACEMENT_RE.match(correction): <<wrong, right>>, <<>> if no match
\* with the wrong token being the first wl symbols of a (the text after "not")
NegationTail(a, wl) ==
  With([e \in {LStripChars(Drop(a, wl), {" ", ","})} |->
  With([g \in {GroupThenToken(e, {"use", "using", "with", "but", "instead", "rather"})} |->
  With([rest \in {Drop(e, g[1] + g[2])} |->
    [ok |-> /\ g[2] > 0
            /\ (rest = <<>> \/ (Len(rest) = 1 /\ rest[1] \in SentenceEnd)),
     wl |-> wl,
     right |-> SubSeq(e, g[1] + 1, g[1] + g[2])]])])])

NegationMatch(c) ==
  With([a \in {LStripChars(Tl(c), Whitespace)} |->
  With([tails \in {{ r \in { NegationTail(a, wl) : wl \in 1..TokenRun(a) } : r.ok }} |->
    IF c # <<>> /\ Low(Head(c)) = "not" /\ WsLen(Tl(c)) > 0 /\ tails # {}
    THEN With([m \in {CHOOSE x \in tails : \A y \in tails : y.wl <= x.wl} |->
           <<Take(a, m.wl), m.right>>])
    ELSE <<>>])])

\* the rewritten previous clause, <<>> for None
_rewrite_previous_clause(previous, correction) ==
  With([m \in {NegationMatch(_normalize_spaces(correction))} |->
    IF m = <<>> THEN <<>>
    ELSE With([rewritten \in {_replace_last_case_insensitive(previous, m[1], m[2])} |->
           IF rewritten = previous THEN <<>> ELSE _normalize_spaces(rewritten)])])

StopWords ==
  { "the", "and", "for", "with", "that", "this", "have", "from", "your", "just",
    "really", "very", "like", "then", "there", "here", "what", "when", "where",
    "which", "would", "could", "should", "into", "about", "been", "were", "they",
    "them", "their", "i", "you", "we", "he", "she", "it", "my", "our", "his",
    "her", "its", "not" }
\* the words of Vocab of at most two characters
ShortWords == { "it", "ok", "oh", "no", "uh", "um", "ah", "mm", "do", "to", "of",
                "i", "is", "am", "a" }
\* fault: stop words count as significant
_significant_tokens_with_stopwords(t) ==
  { Low(t[i]) : i \in { j \in 1..Len(t) : IsWord(t[j]) /\ Low(t[j]) \notin ShortWords } }

_significant_tokens(t) ==
  { Low(t[i]) : i \in { j \in 1..Len(t) :
       IsWord(t[j]) /\ Low(t[j]) \notin ShortWords /\ Low(t[j]) \notin StopWords } }

\* upper-case the first alphabetic character
RECURSIVE CapFirstAlpha(_)
CapFirstAlpha(t) ==
  IF t = <<>> THEN <<>>
  ELSE IF IsWord(Head(t))
       THEN << IF Head(t) \in Vocab THEN Cap(Head(t)) ELSE Head(t) >> \o Tail(t)
       ELSE <<Head(t)>> \o CapFirstAlpha(Tail(t))

RECURSIVE CorrectClauses(_, _)
CorrectClauses(clauses, corrected) ==
  IF clauses = <<>> THEN corrected
  ELSE
    With([cleaned_clause \in {_normalize_spaces(Head(clauses))} |->
    With([marker_end \in {MarkerEnd(cleaned_clause)} |->
    With([remainder \in {_rewrite_not_use_inline(_normalize_spaces(Drop(cleaned_clause, marker_end)))} |->
    With([rewritten_previous \in {IF marker_end = 0 \/ corrected = <<>> \/ remainder = <<>> THEN <<>>
         ELSE _rewrite_previous_clause(corrected[Len(corrected)], remainder)} |->
      CorrectClauses(
        Tail(clauses),
        IF marker_end = 0 \/ corrected = <<>> THEN Append(corrected, cleaned_clause)
        ELSE IF remainder = <<>> THEN corrected
        ELSE IF rewritten_previous # <<>>
             THEN Append(Front(corrected), rewritten_previous)
        ELSE IF _significant_tokens(corrected[Len(corrected)])
                  \cap _significant_tokens(remainder) # {}
             THEN Append(Front(corrected), CapFirstAlpha(remainder))
        ELSE Append(corrected, cleaned_clause))])])])])

_apply_inline_corrections(text) ==
  With([t \in {_rewrite_not_use_inline(_normalize_spaces(text))} |->
  With([clauses \in {Clauses(t)} |->
    IF clauses = <<>> THEN t
    ELSE _normalize_spaces(_rewrite_not_use_inline(JoinSp(CorrectClauses(clauses, <<>>))))])])

\* ------------------------------------------------------------------------
\* Overlap dedupe
\* ------------------------------------------------------------------------
\* fault: the window sizes are tried 1, 2, 3 and the shortest match wins
_dedupe_overlap_shortest(prev_output, segment) ==
  With([prev_tokens \in {Split(prev_output)} |->
  With([seg_tokens \in {Split(segment)} |->
  With([max_check \in {IF Len(prev_tokens) < 3 \/ Len(seg_tokens) < 3
       THEN (IF Len(prev_tokens) < Len(seg_tokens)
             THEN Len(prev_tokens) ELSE Len(seg_tokens))
       ELSE 3} |->
  With([sizes \in {{ size \in 1..max_check :
           SubSeq(prev_tokens, Len(prev_tokens) - size + 1, Len(prev_tokens))
             = SubSeq(seg_tokens, 1, size) }} |->
    IF prev_output = <<>> \/ segment = <<>> THEN segment
    ELSE IF prev_tokens = <<>> \/ seg_tokens = <<>> THEN segment
    ELSE IF sizes # {}
         THEN Strip(JoinSp(Drop(seg_tokens, CHOOSE x \in sizes : \A y \in sizes : x <= y)))
         ELSE segment])])])])

_dedupe_overlap(prev_output, segment) ==
  With([prev_tokens \in {Split(prev_output)} |->
  With([seg_tokens \in {Split(segment)} |->
  With([max_check \in {IF Len(prev_tokens) < 3 \/ Len(seg_tokens) < 3
       THEN (IF Len(prev_tokens) < Len(seg_tokens)
             THEN Len(prev_tokens) ELSE Len(seg_tokens))
       ELSE 3} |->
  With([sizes \in {{ size \in 1..max_check :
           SubSeq(prev_tokens, Len(prev_tokens) - size + 1, Len(prev_tokens))
             = SubSeq(seg_tokens, 1, size) }} |->
    IF prev_output = <<>> \/ segment = <<>> THEN segment
    ELSE IF prev_tokens = <<>> \/ seg_tokens = <<>> THEN segment
    ELSE IF sizes # {}
         THEN Strip(JoinSp(Drop(seg_tokens, CHOOSE x \in sizes : \A y \in sizes : y <= x)))
         ELSE segment])])])])

\* ------------------------------------------------------------------------
\* Command handlers.  A machine m is the TranscriptState together with the
\* persistent data a call can touch:
\*   m.segments, m.output_text   TranscriptState
\*   m.store                     adaptive dictionary ([global, app] buckets)
\*   m.profile                   profiles file ([tone, language] of the default
\*                               profile and of the application's profile)
\* A handler returns [m |-> machine after, out |-> returned text, action |-> ...].
\* ------------------------------------------------------------------------
Res(m, out, action) == [m |-> m, out |-> out, action |-> action]

\* fault: the whole profile entry is rewritten from the command
update_profile_whole_entry(m, app_id, setting_cmd) ==
  With([scope \in {IF app_id # NoApp THEN "app" ELSE "default"} |->
    IF setting_cmd.type \in {"tone", "language"} /\ setting_cmd.value # <<>>
    THEN [m EXCEPT !.profile[scope] = [tone |-> setting_cmd.value,
                                       language |-> setting_cmd.value]]
    ELSE m])

\* update_profile(ctx.app_id, tone=..) / (language=..)
update_profile(m, app_id, setting_cmd) ==
  With([scope \in {IF app_id # NoApp THEN "app" ELSE "default"} |->
    IF setting_cmd.type = "tone" /\ setting_cmd.value # <<>>
    THEN [m EXCEPT !.profile[scope].tone = setting_cmd.value]
    ELSE IF setting_cmd.type = "language" /\ setting_cmd.value # <<>>
    THEN [m EXCEPT !.profile[scope].language = setting_cmd.value]
    ELSE m])

\* snippets file: trigger name -> canned text
Snippets == << [key |-> <<"foo">>, to |-> <<"^bar", SP, "bar", ".">>] >>
\* the pattern is r"^(?:insert|snippet|shortcut)\\s+(?P<name>.+)$": a literal
\* backslash followed by the letter s must follow the keyword
_resolve_snippet(utterance) ==
  With([n \in {_normalize_spaces(utterance)} |->
  With([name \in {LowSeq(Strip(Drop(n, 3)))} |->
  With([hits \in {{ i \in 1..Len(Snippets) : Snippets[i].key = name }} |->
    IF Len(n) >= 4 /\ Low(n[1]) \in _SNIPPET_RE /\ n[2] = "\\" /\ n[3] = "s"
       /\ name # <<>> /\ hits # {}
    THEN Snippets[CHOOSE i \in hits : TRUE].to
    ELSE <<>>])])])

WriteVerbs == {"write", "say", "type"}

\* ^(?:w1|w2|...)\b[\s,:-]* removed from the head of t
StripLeadWord(t, ws) ==
  IF t # <<>> /\ Low(Head(t)) \in ws /\ ~IsWord(SymAt(t, 2))
  THEN LStripChars(Tail(t), {" ", ",", ":", "-"} \cup Whitespace) ELSE t

\* (?:w\s+)? skipped at the head of t
SkipWord(t, w) ==
  IF t # <<>> /\ Low(Head(t)) = w /\ WsLen(Tail(t)) > 0
  THEN LStripChars(Tail(t), Whitespace) ELSE t

_clean_remainder(store, text, app_id, conf) ==
  With([r1 \in {StripLeadWord(LStripChars(_normalize_spaces(text),
                                 {" ", ",", ".", ":", ";", "!", "-"}),
                     {"and", "then", "instead"})} |->
  \* ^(?:and\s+)?(?:please\s+)?(?:write|say|type)\b[\s,:-]*
  With([a \in {SkipWord(r1, "and")} |->
  With([b \in {SkipWord(a, "please")} |->
  With([p \in {SkipWord(r1, "please")} |->
  With([r2 \in {IF StripLeadWord(b, WriteVerbs) # b THEN StripLeadWord(b, WriteVerbs)
       ELSE IF StripLeadWord(a, WriteVerbs) # a THEN StripLeadWord(a, WriteVerbs)
       ELSE IF StripLeadWord(p, WriteVerbs) # p THEN StripLeadWord(p, WriteVerbs)
       ELSE StripLeadWord(r1, WriteVerbs)} |->
    _normalize_segment(
      _apply_personal_dictionary(store, StripLeadWord(r2, {"and", "then"}), app_id),
      conf)])])])])])

\* fault: the segment list is rebuilt before the comparison with the old text
_handle_replace_pattern_rebuild_first(m, target, replacement, app_id, conf) ==
  With([target_cleaned \in {_normalize_spaces(target)} |->
  With([learned_replacement \in {_normalize_spaces(_apply_personal_dictionary(m.store, replacement, app_id))} |->
  With([replacement_cleaned \in {_normalize_spaces(_cleanup_disfluencies(learned_replacement, conf, CLEANUP_LEVEL))} |->
  With([new_output \in {_replace_last_case_insensitive(m.output_text, target_cleaned, replacement_cleaned)} |->
  With([rebuilt \in {[m EXCEPT !.output_text = new_output,
                 !.segments = IF new_output # <<>> THEN <<new_output>> ELSE <<>>]} |->
    IF target_cleaned = <<>> \/ replacement_cleaned = <<>> \/ m.output_text = <<>>
    THEN Res(m, m.output_text, "ignore")
    ELSE IF new_output # m.output_text
    THEN Res([rebuilt EXCEPT !.store = _learn_adaptive_replacement(
                                          m.store, target_cleaned, learned_replacement, app_id)],
             new_output, "undo_append")
    ELSE Res(rebuilt, m.output_text, "ignore")])])])])])

\* fault: the replacement is learned before the text is known to have changed
_handle_replace_pattern_learn_first(m, target, replacement, app_id, conf) ==
  With([target_cleaned \in {_normalize_spaces(target)} |->
  With([learned_replacement \in {_normalize_spaces(_apply_personal_dictionary(m.store, replacement, app_id))} |->
  With([replacement_cleaned \in {_normalize_spaces(_cleanup_disfluencies(learned_replacement, conf, CLEANUP_LEVEL))} |->
  With([new_output \in {_replace_last_case_insensitive(m.output_text, target_cleaned, replacement_cleaned)},
        learned \in {[m EXCEPT !.store = _learn_adaptive_replacement(
                                    m.store, target_cleaned, learned_replacement, app_id)]} |->
    IF target_cleaned = <<>> \/ replacement_cleaned = <<>> \/ m.output_text = <<>>
    THEN Res(learned, m.output_text, "ignore")
    ELSE IF new_output # m.output_text
    THEN Res([learned EXCEPT !.output_text = new_output,
                             !.segments = IF new_output # <<>> THEN <<new_output>> ELSE <<>>],
             new_output, "undo_append")
    ELSE Res(learned, m.output_text, "ignore")])])])])

_handle_replace_pattern(m, target, replacement, app_id, conf) ==
  With([target_cleaned \in {_normalize_spaces(target)} |->
  With([learned_replacement \in {_normalize_spaces(_apply_personal_dictionary(m.store, replacement, app_id))} |->
  With([replacement_cleaned \in {_normalize_spaces(_cleanup_disfluencies(learned_replacement, conf, CLEANUP_LEVEL))} |->
  With([new_output \in {_replace_last_case_insensitive(m.output_text, target_cleaned, replacement_cleaned)} |->
    IF target_cleaned = <<>> \/ replacement_cleaned = <<>> \/ m.output_text = <<>>
    THEN Res(m, m.output_text, "ignore")
    ELSE IF new_output # m.output_text
    THEN Res([m EXCEPT !.output_text = new_output,
                       !.segments = IF new_output # <<>> THEN <<new_output>> ELSE <<>>,
                       !.store = _learn_adaptive_replacement(
                                    m.store, target_cleaned, learned_replacement, app_id)],
             new_output, "undo_append")
    ELSE Res(m, m.output_text, "ignore")])])])])

\* phrase in text (substring test on lower-cased text)
RECURSIVE Contains(_, _)
Contains(t, phrase) ==
  IF Len(t) < Len(phrase) THEN FALSE
  ELSE MatchAt(t, phrase) \/ Contains(Tail(t), phrase)

\* re.split(r"(?<=[.!?])\s+", text), empty parts dropped
RECURSIVE SentenceLen(_, _)
SentenceLen(t, i) ==
  IF i > Len(t) THEN Len(t)
  ELSE IF i > 1 /\ t[i - 1] \in SentenceEnd /\ IsSpace(t[i]) THEN i - 1
  ELSE SentenceLen(t, i + 1)

RECURSIVE Sentences(_)
Sentences(t) ==
  IF t = <<>> THEN <<>>
  ELSE With([n \in {SentenceLen(t, 1)} |->
       With([rest \in {LStripChars(Drop(t, n), Whitespace)} |->
         (IF n = 0 THEN <<>> ELSE <<Take(t, n)>>)
         \o (IF n = 0 /\ rest = t THEN <<>> ELSE Sentences(rest))])])

\* text.split("\n\n")
RECURSIVE Paragraphs(_, _)
Paragraphs(t, acc) ==
  IF t = <<>> THEN <<acc>>
  ELSE IF Len(t) >= 2 /\ t[1] = "\n" /\ t[2] = "\n"
       THEN <<acc>> \o Paragraphs(Drop(t, 2), <<>>)
       ELSE Paragraphs(Tail(t), Append(acc, Head(t)))

RECURSIVE JoinPara(_)
JoinPara(parts) ==
  IF parts = <<>> THEN <<>>
  ELSE IF Len(parts) = 1 THEN parts[1]
  ELSE parts[1] \o <<"\n", "\n">> \o JoinPara(Tail(parts))

_handle_advanced_delete(m, command) ==
  With([command_cleaned \in {LowSeq(_normalize_spaces(command))} |->
  With([sentences \in {Sentences(Strip(m.output_text))} |->
  With([new_text \in {Strip(JoinSp(Front(sentences)))} |->
  With([paragraphs \in {Paragraphs(m.output_text, <<>>)} |->
  With([new_para \in {Strip(JoinPara(Front(paragraphs)))} |->
  With([cleared \in {[m EXCEPT !.output_text = <<>>, !.segments = <<>>]} |->
  With([popped_output \in {_join_segments(Front(m.segments))} |->
    IF \/ Contains(command_cleaned, Ph(<<"undo", "last", "sentence">>))
       \/ Contains(command_cleaned, Ph(<<"delete", "last", "sentence">>))
    THEN IF m.output_text = <<>> THEN Res(m, m.output_text, "ignore")
         ELSE IF sentences = <<>> THEN Res(m, m.output_text, "ignore")
         ELSE IF new_text # <<>>
              THEN Res([m EXCEPT !.output_text = new_text, !.segments = <<new_text>>],
                       new_text, "undo")
         ELSE Res(cleared, <<>>, "clear")
    ELSE IF \/ Contains(command_cleaned, Ph(<<"undo", "last", "paragraph">>))
            \/ Contains(command_cleaned, Ph(<<"remove", "last", "paragraph">>))
    THEN IF m.output_text = <<>> THEN Res(m, m.output_text, "ignore")
         ELSE IF Len(paragraphs) > 1
              THEN IF new_para # <<>>
                   THEN Res([m EXCEPT !.output_text = new_para, !.segments = <<new_para>>],
                            new_para, "undo")
                   ELSE Res(cleared, <<>>, "clear")
         ELSE IF m.segments # <<>>
              THEN Res([m EXCEPT !.segments = Front(m.segments),
                                 !.output_text = popped_output],
                       popped_output, "undo")
         ELSE Res(m, m.output_text, "ignore")
    ELSE Res(m, m.output_text, "ignore")])])])])])])])

\* str.capitalize()
Capitalize(t) ==
  IF t = <<>> THEN <<>>
  ELSE << IF IsWord(Head(t)) THEN Cap(Low(Head(t))) ELSE Head(t) >> \o LowSeq(Tail(t))

\* the last segment with the format applied, <<>> when no segment is changed
Formatted(segments, command_cleaned) ==
  IF segments = <<>> THEN <<>>
  ELSE With([last_segment \in {segments[Len(segments)]} |->
    IF \/ Contains(command_cleaned, Ph(<<"capitalize", "that">>))
       \/ Contains(command_cleaned, Ph(<<"capitalize", "last">>))
    THEN <<Capitalize(last_segment)>>
    ELSE IF \/ Contains(command_cleaned, Ph(<<"make", "it", "a", "heading">>))
            \/ Contains(command_cleaned, Ph(<<"heading", "format">>))
    THEN << <<"#", SP>> \o last_segment >>
    ELSE IF \/ Contains(command_cleaned, Ph(<<"make", "it", "bold">>))
            \/ Contains(command_cleaned, Ph(<<"bold", "format">>))
    THEN << <<"*", "*">> \o last_segment \o <<"*", "*">> >>
    ELSE IF \/ Contains(command_cleaned, Ph(<<"make", "it", "italic">>))
            \/ Contains(command_cleaned, Ph(<<"italic", "format">>))
    THEN << <<"*">> \o last_segment \o <<"*">> >>
    ELSE <<>>])

_handle_formatting_commands(m, command) ==
  With([formatted \in {Formatted(m.segments, LowSeq(_normalize_spaces(command)))} |->
    IF m.output_text = <<>> THEN Res(m, m.output_text, "ignore")
    ELSE IF formatted # <<>>
    THEN With([segs \in {Append(Front(m.segments), formatted[1])} |->
           Res([m EXCEPT !.segments = segs, !.output_text = _join_segments(segs)],
               _join_segments(segs), "append")])
    ELSE Res(m, m.output_text, "ignore")])

\* re.search(r"insert\s+(.*?)\s+after\s+(.+)", command): <<text, target>> or <<>>
\* positions of " after " that can end the text inserted by "insert" at i
Afters(t, i) ==
  { j \in (i + 4)..(Len(t) - 2) :
      IsSpace(t[j - 1]) /\ Low(t[j]) = "after" /\ IsSpace(t[j + 1]) }

InsertAfterMatch(t) ==
  With([starts \in {{ i \in 1..Len(t) :
           Low(t[i]) = "insert" /\ IsSpace(SymAt(t, i + 1)) /\ Afters(t, i) # {} }} |->
    IF starts = {} THEN <<>>
    ELSE With([i \in {CHOOSE x \in starts : \A y \in starts : x <= y} |->
         With([j \in {CHOOSE x \in Afters(t, i) : \A y \in Afters(t, i) : x <= y} |->
           << SubSeq(t, i + 2, j - 2), Drop(t, j + 1) >>])])])

\* pattern.sub(repl, text, count=1) for the escaped literal, no word boundaries
RECURSIVE SubFirstPlain(_, _, _)
SubFirstPlain(t, key, repl) ==
  IF t = <<>> THEN <<>>
  ELSE IF MatchAt(t, LowSeq(key)) THEN repl \o Drop(t, Len(key))
  ELSE <<Head(t)>> \o SubFirstPlain(Tail(t), key, repl)

_handle_advanced_replace(m, command) ==
  With([insert_after_match \in {InsertAfterMatch(_normalize_spaces(command))} |->
    IF insert_after_match = <<>> THEN Res(m, m.output_text, "ignore")
    ELSE
  With([text_to_insert \in {_normalize_spaces(insert_after_match[1])},
        target_phrase \in {_normalize_spaces(insert_after_match[2])} |->
  With([new_output \in {SubFirstPlain(m.output_text, target_phrase,
                                      target_phrase \o <<SP>> \o text_to_insert)} |->
    IF text_to_insert # <<>> /\ target_phrase # <<>> /\ m.output_text # <<>>
       /\ new_output # m.output_text
    THEN Res([m EXCEPT !.output_text = new_output,
                       !.segments = IF new_output # <<>> THEN <<new_output>> ELSE <<>>],
             new_output, "append")
    ELSE Res(m, m.output_text, "ignore")])])])

\* ^(?:undo|delete|remove)\s+last\s+(?:sentence|paragraph)\b
LastUnitMatches(t) ==
  \E verb \in {"undo", "delete", "remove"}, unit \in {"sentence", "paragraph"} :
    MatchB(t, Ph(<<verb, "last", unit>>))

\* ^(?:capitalize that|capitalize last|make it a heading|...)\b
FormatPhrases ==
  << Ph(<<"capitalize", "that">>), Ph(<<"capitalize", "last">>),
     Ph(<<"make", "it", "a", "heading">>), Ph(<<"heading", "format">>),
     Ph(<<"make", "it", "bold">>), Ph(<<"bold", "format">>),
     Ph(<<"make", "it", "italic">>), Ph(<<"italic", "format">>) >>

needs_intent_handling(utterance) ==
  With([normalized \in {_normalize_spaces(utterance)} |->
  With([command_text \in {_strip_command_preface(normalized)} |->
    IF normalized = <<>> THEN FALSE
    ELSE IF command_text = <<>> THEN FALSE
    ELSE IF ClearMatches(command_text) THEN TRUE
    ELSE IF IgnoreMatches(command_text) \/ IgnoreTrailingMatches(command_text) THEN TRUE
    ELSE IF UndoMatches(command_text) THEN TRUE
    ELSE IF ReplaceMatches(command_text) THEN TRUE
    ELSE IF _detect_transform_command(command_text) # "none" THEN TRUE
    ELSE IF _detect_setting_command(command_text).type # "none" THEN TRUE
    ELSE IF LastUnitMatches(command_text) THEN TRUE
    ELSE FirstMatch(command_text, FormatPhrases) > 0])])

\* ------------------------------------------------------------------------
\* apply_heuristic
\* ------------------------------------------------------------------------
\* fault: the last segment is popped only when a remainder follows
PopAndPush_pop_only_with_remainder(segs, remainder) ==
  IF remainder # <<>> THEN Append(Front(segs), remainder) ELSE segs

\* fault: the remainder is pushed without popping the last segment
PopAndPush_push_without_pop(segs, remainder) ==
  IF remainder # <<>> THEN Append(segs, remainder) ELSE Front(segs)

\* the undo handler: if state.segments: pop(); if remainder: append(remainder)
PopAndPush(segs, remainder) ==
  IF remainder # <<>> THEN Append(Front(segs), remainder) ELSE Front(segs)

apply_heuristic(m, utterance, app_id, conf) ==
  With([raw \in {_normalize_spaces(utterance)} |->
  With([setting_cmd \in {_detect_setting_command(raw)},
        snippet \in {_resolve_snippet(raw)},
        command_text \in {_strip_command_preface(raw)} |->
    IF raw = <<>> THEN Res(m, m.output_text, "ignore")
    ELSE IF setting_cmd.type # "none"
         THEN Res(update_profile(m, app_id, setting_cmd), m.output_text, "ignore")
    ELSE IF snippet # <<>>
         THEN IF _normalize_spaces(snippet) # <<>>
              THEN With([appended \in {Append(m.segments, _normalize_spaces(snippet))} |->
                     Res([m EXCEPT !.segments = appended,
                                   !.output_text = _join_segments(appended)],
                         _join_segments(appended), "append")])
              ELSE Res(m, m.output_text, "ignore")
    ELSE IF ClearMatches(command_text)
         THEN Res([m EXCEPT !.segments = <<>>, !.output_text = <<>>], <<>>, "clear")
    ELSE IF ReplaceMatches(command_text)
         THEN _handle_replace_pattern(m, ReplaceTarget(command_text),
                                      ReplaceReplacement(command_text), app_id, conf)
    ELSE IF IgnoreTrailingMatches(command_text) THEN Res(m, m.output_text, "ignore")
    ELSE IF IgnoreMatches(command_text) THEN Res(m, m.output_text, "ignore")
    ELSE
  With([advanced_delete_result \in {_handle_advanced_delete(m, command_text)} |->
    IF advanced_delete_result.action # "ignore" THEN advanced_delete_result
    ELSE
  With([format_result \in {_handle_formatting_commands(m, command_text)} |->
    IF format_result.action # "ignore" THEN format_result
    ELSE
  With([replace_result \in {_handle_advanced_replace(m, command_text)} |->
    IF replace_result.action # "ignore" THEN replace_result
    \* undo / delete / scratch, optionally followed by a remainder
    ELSE IF UndoMatches(command_text)
    THEN With([remainder \in {_clean_remainder(m.store, UndoRest(command_text),
                                               app_id, conf)} |->
         With([undone \in {PopAndPush(m.segments, remainder)} |->
           Res([m EXCEPT !.segments = undone, !.output_text = _join_segments(undone)],
               _join_segments(undone),
               IF remainder # <<>> THEN "undo_append" ELSE "undo")])])
    \* content
    ELSE
  With([segment \in {_normalize_segment(
         _apply_personal_dictionary(m.store, _apply_inline_corrections(raw), app_id),
         conf)} |->
    IF segment = <<>> THEN Res(m, m.output_text, "ignore")
    ELSE
  With([deduped \in {_dedupe_overlap(m.output_text, segment)} |->
    IF deduped = <<>> THEN Res(m, m.output_text, "ignore")
    ELSE
  With([appended \in {Append(m.segments, deduped)} |->
    Res([m EXCEPT !.segments = appended, !.output_text = _join_segments(appended)],
        _join_segments(appended), "append")])])])])])])])])

\* ------------------------------------------------------------------------
\* External language-model adapter
\* ------------------------------------------------------------------------
\* What the external service hands back: NoResult (no API key, request error,
\* no JSON object in the content), a JSON object whose updated_transcript is
\* missing or not a string, or a JSON object with a string updated_transcript.
\* A missing action is read as "" (str(data.get("action") or "")).
NoResult == [kind |-> "none", updated |-> <<>>, action |-> <<>>]
JsonNoText(action) == [kind |-> "json_no_text", updated |-> <<>>, action |-> action]
Json(updated, action) == [kind |-> "json", updated |-> updated, action |-> action]
None == [out |-> <<>>, action |-> "none"]

\* fault: the comparison deciding the coerced action is reversed
_normalize_llm_result_reversed(store, prev_output, updated, action, app_id, conf) ==
  With([a0 \in {LowSeq(_normalize_spaces(action))} |->
  With([normalized_action \in {IF Len(a0) = 1 /\ a0[1] \in VALID_ACTIONS THEN a0[1]
       ELSE IF prev_output = updated THEN "append" ELSE "ignore"} |->
  With([normalized_output \in {_polish_punctuation(
         _cleanup_disfluencies(_apply_personal_dictionary(store, updated, app_id),
                               conf, CLEANUP_LEVEL))} |->
    IF normalized_action = "clear" THEN [out |-> <<>>, action |-> "clear"]
    ELSE IF normalized_action = "ignore" THEN [out |-> prev_output, action |-> "ignore"]
    ELSE IF normalized_action \in {"undo", "undo_append"}
         THEN [out |-> updated, action |-> normalized_action]
    ELSE IF normalized_output # prev_output
         THEN [out |-> normalized_output, action |-> "append"]
    ELSE [out |-> prev_output, action |-> "ignore"]])])])

\* fault: a clear result keeps the text of the reply
_normalize_llm_result_clear_keeps_text(store, prev_output, updated, action, app_id, conf) ==
  With([a0 \in {LowSeq(_normalize_spaces(action))} |->
  With([normalized_action \in {IF Len(a0) = 1 /\ a0[1] \in VALID_ACTIONS THEN a0[1]
       ELSE IF prev_output # updated THEN "append" ELSE "ignore"} |->
  With([normalized_output \in {_polish_punctuation(
         _cleanup_disfluencies(_apply_personal_dictionary(store, updated, app_id),
                               conf, CLEANUP_LEVEL))} |->
    IF normalized_action = "clear" THEN [out |-> updated, action |-> "clear"]
    ELSE IF normalized_action = "ignore" THEN [out |-> prev_output, action |-> "ignore"]
    ELSE IF normalized_action \in {"undo", "undo_append"}
         THEN [out |-> updated, action |-> normalized_action]
    ELSE IF normalized_output # prev_output
         THEN [out |-> normalized_output, action |-> "append"]
    ELSE [out |-> prev_output, action |-> "ignore"]])])])

_normalize_llm_result(store, prev_output, updated, action, app_id, conf) ==
  With([a0 \in {LowSeq(_normalize_spaces(action))} |->
  With([normalized_action \in {IF Len(a0) = 1 /\ a0[1] \in VALID_ACTIONS THEN a0[1]
       ELSE IF prev_output # updated THEN "append" ELSE "ignore"} |->
  With([normalized_output \in {_polish_punctuation(
         _cleanup_disfluencies(_apply_personal_dictionary(store, updated, app_id),
                               conf, CLEANUP_LEVEL))} |->
    IF normalized_action = "clear" THEN [out |-> <<>>, action |-> "clear"]
    ELSE IF normalized_action = "ignore" THEN [out |-> prev_output, action |-> "ignore"]
    ELSE IF normalized_action \in {"undo", "undo_append"}
         THEN [out |-> updated, action |-> normalized_action]
    ELSE IF normalized_output # prev_output
         THEN [out |-> normalized_output, action |-> "append"]
    ELSE [out |-> prev_output, action |-> "ignore"]])])])

\* fault: a default result is returned in place of None when the reply is unusable
_llm_updated_transcript_default(store, prev_output, resp, app_id, conf) ==
  IF resp.kind # "json" THEN [out |-> prev_output, action |-> "ignore"]
  ELSE _normalize_llm_result(store, prev_output, resp.updated,
                             LowSeq(Strip(resp.action)), app_id, conf)

\* fault: the isinstance(updated, str) test is missing and the text defaults to ""
_llm_updated_transcript_any_object(store, prev_output, resp, app_id, conf) ==
  IF resp.kind = "none" THEN None
  ELSE _normalize_llm_result(store, prev_output, resp.updated,
                             LowSeq(Strip(resp.action)), app_id, conf)

_llm_updated_transcript(store, prev_output, resp, app_id, conf) ==
  IF resp.kind # "json" THEN None
  ELSE _normalize_llm_result(store, prev_output, resp.updated,
                             LowSeq(Strip(resp.action)), app_id, conf)

\* ------------------------------------------------------------------------
\* Transcript state updates
\* ------------------------------------------------------------------------
\* while state.segments and _join_segments(state.segments) != new_output: pop()
RECURSIVE PopUntil(_, _)
PopUntil(segments, new_output) ==
  IF segments # <<>> /\ _join_segments(segments) # new_output
  THEN PopUntil(Front(segments), new_output) ELSE segments

\* fault: a truncation that ends inside a segment leaves the popped list
_sync_segments_from_output_no_fallback(segments, prev_output, new_output) ==
  With([rebased \in {IF _join_segments(segments) # prev_output
       THEN (IF prev_output # <<>> THEN <<prev_output>> ELSE <<>>)
       ELSE segments} |->
  With([inserted \in {Strip(_normalize_spaces(Drop(new_output, Len(prev_output))))} |->
    IF new_output = <<>> THEN <<>>
    ELSE IF StartsWith(new_output, prev_output)
         THEN IF inserted # <<>> THEN Append(rebased, inserted)
              ELSE IF rebased = <<>> THEN <<new_output>> ELSE rebased
    ELSE IF StartsWith(prev_output, new_output) THEN PopUntil(rebased, new_output)
    ELSE <<new_output>>])])

_sync_segments_from_output(segments, prev_output, new_output) ==
  With([rebased \in {IF _join_segments(segments) # prev_output
       THEN (IF prev_output # <<>> THEN <<prev_output>> ELSE <<>>)
       ELSE segments} |->
  With([inserted \in {Strip(_normalize_spaces(Drop(new_output, Len(prev_output))))} |->
  With([popped \in {PopUntil(rebased, new_output)} |->
    IF new_output = <<>> THEN <<>>
    ELSE IF StartsWith(new_output, prev_output)
         THEN IF inserted # <<>> THEN Append(rebased, inserted)
              ELSE IF rebased = <<>> THEN <<new_output>> ELSE rebased
    ELSE IF StartsWith(prev_output, new_output)
         THEN IF _join_segments(popped) # new_output THEN <<new_output>> ELSE popped
    ELSE <<new_output>>])])])

\* the value smart_update_state returns, the state it leaves and the number of
\* requests it made to the external service
Ret(m, prev_output, new_output, action, llm_calls, path, heard) ==
  [m |-> m, prev_output |-> prev_output, new_output |-> new_output,
   action |-> action, llm_calls |-> llm_calls, path |-> path, heard |-> heard]

\* the external result smart_update_state adopts, after zero, one or two requests:
\* the transform request is made first and its result wins
Adopted(transform_call, transform_result, use_llm, llm_result) ==
  IF transform_result # None
  THEN [result |-> transform_result, llm_calls |-> 1, path |-> "transform"]
  ELSE [result |-> llm_result,
        llm_calls |-> (IF transform_call THEN 1 ELSE 0) + (IF use_llm THEN 1 ELSE 0),
        path |-> IF llm_result # None THEN "llm" ELSE "heuristic"]

smart_update_state(m, utterance0, mode, allow_llm, conf, ctx_app_id, resp1, resp2) ==
  With([selected_mode \in {IF mode \in {"heuristic", "llm"} THEN mode ELSE "heuristic"},
        prev_output \in {m.output_text},
        app_id \in {IF USER_ADAPTATION_ENABLED THEN ctx_app_id ELSE NoApp} |->
  With([utterance \in {_apply_personal_dictionary(m.store, utterance0, app_id)} |->
  With([setting_cmd \in {_detect_setting_command(utterance)},
        snippet \in {_resolve_snippet(utterance)} |->
    IF setting_cmd.type # "none"
    THEN Ret(update_profile(m, ctx_app_id, setting_cmd), prev_output, prev_output, "ignore", 0,
             "setting", utterance)
    ELSE IF snippet # <<>>
    THEN IF _normalize_spaces(snippet) # <<>>
         THEN With([snippet_segments \in {Append(m.segments, _normalize_spaces(snippet))} |->
                Ret([m EXCEPT !.segments = snippet_segments,
                              !.output_text = _join_segments(snippet_segments)],
                    prev_output, _join_segments(snippet_segments), "append", 0, "snippet",
                    utterance)])
         ELSE Ret(m, prev_output, prev_output, "ignore", 0, "snippet", utterance)
    ELSE
  With([transform_call \in {_detect_transform_command(utterance) # "none"
                            /\ prev_output # <<>>},
        use_llm \in {IF ~allow_llm THEN FALSE
                     ELSE IF DICTATION_MODE = "speed" THEN FALSE
                     ELSE IF DICTATION_MODE = "accurate" THEN selected_mode = "llm"
                     \* ... and (llm_always_clean or needs_intent_handling(..)),
                     \* with llm_always_clean at its default
                     ELSE selected_mode = "llm" /\ LLM_ALWAYS_CLEAN} |->
  With([adopted \in {Adopted(transform_call,
               IF transform_call
               THEN _llm_updated_transcript(m.store, prev_output, resp1, app_id, conf)
               ELSE None,
               use_llm,
               IF use_llm
               THEN _llm_updated_transcript(m.store, prev_output, resp2, app_id, conf)
               ELSE None)} |->
    IF adopted.result # None
    THEN IF adopted.result.action = "ignore"
         THEN Ret(m, prev_output, prev_output, "ignore", adopted.llm_calls, adopted.path,
                  utterance)
         ELSE Ret([m EXCEPT !.segments = _sync_segments_from_output(
                                            m.segments, prev_output, adopted.result.out),
                            !.output_text = adopted.result.out],
                  prev_output, adopted.result.out, adopted.result.action,
                  adopted.llm_calls, adopted.path, utterance)
    ELSE
  With([heuristic \in {apply_heuristic(m, utterance, app_id, conf)} |->
    Ret(heuristic.m, prev_output, heuristic.out, heuristic.action, adopted.llm_calls,
        "heuristic", utterance)])])])])])])

sync_state_to_output(m, prev_output, new_output) ==
  [m EXCEPT !.segments = _sync_segments_from_output(m.segments, prev_output, new_output),
            !.output_text = new_output]

\* ------------------------------------------------------------------------
\* The dictation session as a state machine
\* ------------------------------------------------------------------------
VARIABLES
  segments,      \* TranscriptState.segments
  output_text,   \* TranscriptState.output_text
  store,         \* adaptive_dictionary.json (global and per-app buckets)
  profile,       \* profiles.json: tone and language, by default and for the application
  ret,           \* the call that has just completed and the value it returned
  lock,          \* TranscriptState.lock: the thread holding it, or Free
  pc,            \* where each worker thread is in its call
  seen,          \* segments and output_text as each thread found them on entry
  observed,      \* history kept by the scenarios: how often each replace command
                 \* has changed the text; the chunk results recorded since reset()
  adaptive_cache, \* _ADAPTIVE_CACHE["data"]: the store as this process last read or wrote it
  sessions,      \* further TranscriptState instances of the process and the lists
                 \* their segments fields refer to
  health,        \* the StreamingHealth of the streaming transcriber
  main,          \* the events, recorder and threads of main() in app.py
  streamer       \* the StreamingTranscriber: _running, _task_queue, its workers

vars == <<segments, output_text, store, profile, ret, lock, pc, seen, observed,
          adaptive_cache, sessions, health, main, streamer>>

MaxLen == 8      \* transcripts longer than this many symbols are not explored
MaxCount == 2    \* learned-replacement counts are explored up to this value
NThreads == 2    \* worker threads sharing one TranscriptState

Threads == 1..NThreads
Free == 0

M == [segments |-> segments, output_text |-> output_text,
      store |-> store, profile |-> profile]

\* TranscriptState() with the files of a fresh installation
M0 == [segments |-> <<>>, output_text |-> <<>>,
       store |-> [global |-> <<>>, app |-> <<>>],
       profile |-> [default |-> [tone |-> <<"polite">>, language |-> <<"english">>],
                    app |-> [tone |-> <<>>, language |-> <<>>]]]

\* main() before the hotkey listener starts: processing_event and
\* shutdown_event are clear, the recorder is not running, no handler and no
\* worker is active
AppStart ==
  [processing_event |-> FALSE, shutdown_event |-> FALSE, recording |-> FALSE,
   pressed |-> FALSE, handler |-> "idle", shutdown |-> "idle",
   workers |-> <<>>, started |-> 0, log |-> <<>>]

\* StreamingTranscriber.__init__: not running, an empty task queue, no worker
MaxStarts == 2   \* worker threads of the transcriber alive at the same time

\* queue holds chunk numbers and the poison pill of stop(); workers are the
\* worker threads that can be alive at once ("none": not started); queued counts the
\* calls of queue_chunk, taken and outcome keep which worker took a chunk and
\* which outcomes _process_chunk recorded for it
StreamingTranscriber ==
  [running |-> FALSE, queue |-> <<>>,
   workers |-> [w \in 1..MaxStarts |-> [at |-> "none", chunk |-> 0]],
   queued |-> 0, taken |-> <<>>, outcome |-> <<>>]

\* StreamingHealth(): the field defaults of the dataclass
StreamingHealth ==
  [total_chunks |-> 0, successful_chunks |-> 0, failed_chunks |-> 0,
   consecutive_failures |-> 0, last_error |-> "None", last_success_time |-> "None",
   is_healthy |-> TRUE, fallback_mode |-> FALSE]

\* no TranscriptState besides the one of the dictation loop
NoSessions == [state |-> <<>>, lists |-> <<>>]

NoRet ==
  [op |-> "none", utterance |-> <<>>, mode |-> "", allow_llm |-> FALSE,
   conf |-> NoConf, resp1 |-> NoResult, resp2 |-> NoResult, arg_prev |-> <<>>, arg_new |-> <<>>,
   pre |-> M0, prev_output |-> <<>>, new_output |-> <<>>, action |-> "",
   llm_calls |-> 0, path |-> "", heard |-> <<>>, app_id |-> NoApp, write_ok |-> TRUE,
   args |-> <<>>, result |-> <<>>]

Utterances ==
  { <<"foo">>, <<"all">>,
    Ph(<<"clear", "all">>),
    Ph(<<"scratch", "that">>),
    Ph(<<"scratch", "that", "and", "write", "bar">>),
    Ph(<<"ignore", "that">>),
    Ph(<<"tone", "formal">>),
    Ph(<<"replace", "all", "with", "foo">>),
    Ph(<<"rewrite", "formal">>) }

Modes == {"heuristic", "llm"}

\* replies of the external service to a request made with transcript prev
LLMResponses(prev) ==
  { NoResult,
    Json(<<"foo", SP>>, <<"append">>),
    Json(<<"^bar", ".">>, <<"append">>),
    Json(prev \o <<SP, "^bar", ".">>, <<"append">>),
    Json(<<"foo", SP>>, <<"^undo">>),
    Json(<<>>, <<"undo">>),
    Json(<<"^bar", ".">>, <<"undo_append">>),
    Json(<<>>, <<"clear">>),
    Json(<<"^bar", ".">>, <<"ignore">>),
    Json(<<"^bar", ".">>, <<"bogus">>),
    Json(<<"bar">>, <<"bogus">>),
    Json(prev, <<"bogus">>),
    Json(<<"^bar", ".">>, <<>>),
    JsonNoText(<<"clear">>) }

\* replies explored for a rewrite / grammar request
TransformResponses(prev) ==
  { NoResult,
    Json(<<"^bar", ".">>, <<"append">>),
    Json(<<"foo", SP>>, <<"undo">>),
    Json(prev, <<"ignore">>),
    JsonNoText(<<"clear">>) }

\* utterances for which every reply to the regular request is explored; for the
\* others the service is explored as unavailable
LLMUtterances == { <<"foo">>, Ph(<<"clear", "all">>), Ph(<<"scratch", "that">>) }

\* full texts handed to sync_state_to_output when the transcript is out
SyncTexts(out) == { <<>>, <<"foo", SP>>, out \o <<SP, "^bar", ".">> }

RECURSIVE TotalLen(_)
TotalLen(segs) == IF segs = <<>> THEN 0 ELSE Len(Head(segs)) + TotalLen(Tail(segs))

WithinBounds(m) ==
  /\ Len(m.output_text) <= MaxLen
  /\ TotalLen(m.segments) + Len(m.segments) <= MaxLen + 1
  /\ \A i \in 1..Len(m.store.global) : m.store.global[i].count <= MaxCount
  /\ \A i \in 1..Len(m.store.app) : m.store.app[i].count <= MaxCount

Init ==
  /\ segments = M0.segments
  /\ output_text = M0.output_text
  /\ store = M0.store
  /\ profile = M0.profile
  /\ ret = NoRet
  /\ lock = Free
  /\ pc = [t \in Threads |-> "idle"]
  /\ seen = [t \in Threads |-> <<>>]
  /\ observed = <<>>
  /\ adaptive_cache = M0.store
  /\ sessions = NoSessions
  /\ health = StreamingHealth
  /\ main = AppStart
  /\ streamer = StreamingTranscriber

\* whether smart_update_state sends the rewrite / grammar request
TransformCall(m, utterance) ==
  \E heard \in {_apply_personal_dictionary(m.store, utterance, NoApp)} :
    /\ _detect_setting_command(heard).type = "none"
    /\ _resolve_snippet(heard) = <<>>
    /\ _detect_transform_command(heard) # "none"
    /\ m.output_text # <<>>

Install(m) ==
  /\ segments' = m.segments
  /\ output_text' = m.output_text
  /\ store' = m.store
  /\ profile' = m.profile

\* one call of smart_update_state by the transcription worker
SmartUpdateState ==
  /\ ret.op = "none"
  /\ \E utterance \in Utterances, mode \in Modes, allow_llm \in BOOLEAN, conf \in {NoConf} :
       \E resp1 \in IF TransformCall(M, utterance)
                    THEN TransformResponses(output_text) ELSE {NoResult} :
         \E resp2 \in IF mode = "llm" /\ allow_llm /\ resp1.kind # "json"
                         /\ utterance \in LLMUtterances
                      THEN LLMResponses(output_text) ELSE {NoResult} :
           \E r \in {smart_update_state(M, utterance, mode, allow_llm, conf, NoApp, resp1, resp2)} :
             /\ WithinBounds(r.m)
             /\ Install(r.m)
             /\ adaptive_cache' = r.m.store
             /\ ret' = [NoRet EXCEPT !.op = "smart_update_state", !.utterance = utterance,
                                     !.mode = mode, !.allow_llm = allow_llm, !.conf = conf,
                                     !.resp1 = resp1, !.resp2 = resp2, !.pre = M,
                                     !.prev_output = r.prev_output,
                                     !.new_output = r.new_output,
                                     !.action = r.action, !.llm_calls = r.llm_calls,
                                     !.path = r.path, !.heard = r.heard]
  /\ UNCHANGED <<lock, pc, seen, observed, sessions, health, main, streamer>>

\* one call of sync_state_to_output (the refinement step of the worker)
SyncStateToOutput ==
  /\ ret.op = "none"
  /\ \E prev_output \in {output_text, <<>>}, new_output \in SyncTexts(output_text) :
       \E m \in {sync_state_to_output(M, prev_output, new_output)} :
         /\ WithinBounds(m)
         /\ Install(m)
         /\ ret' = [NoRet EXCEPT !.op = "sync_state_to_output", !.pre = M,
                                 !.arg_prev = prev_output, !.arg_new = new_output,
                                 !.prev_output = output_text]
  /\ UNCHANGED <<lock, pc, seen, observed, adaptive_cache, sessions, health, main, streamer>>

\* on_press with RESET_TRANSCRIPT_EACH_RECORDING: a new recording starts
reset_transcript(m) == [m EXCEPT !.segments = <<>>, !.output_text = <<>>]

ResetTranscript ==
  /\ ret.op = "none"
  /\ Install(reset_transcript(M))
  /\ ret' = [NoRet EXCEPT !.op = "reset", !.pre = M, !.prev_output = output_text]
  /\ UNCHANGED <<lock, pc, seen, observed, adaptive_cache, sessions, health, main, streamer>>

\* the caller has taken the returned value
Return ==
  /\ ret.op # "none"
  /\ ret' = NoRet
  /\ UNCHANGED <<segments, output_text, store, profile, lock, pc, seen, observed, adaptive_cache, sessions, health, main, streamer>>

Next == SmartUpdateState \/ SyncStateToOutput \/ ResetTranscript \/ Return

Spec == Init /\ [][Next]_vars

\* ------------------------------------------------------------------------
\* Learning scenarios: dictation in two application contexts, as app.py calls
\* smart_update_state (mode="heuristic", allow_llm=False)
\* ------------------------------------------------------------------------
Apps == {NoApp, "editor"}

MaxLearnLen == 5   \* the learning scenarios keep the transcript this short
MaxLearned == 4    \* and are explored up to this many learning events

\* the number of learning events a bucket records
RECURSIVE Learned(_)
Learned(bucket) ==
  IF bucket = <<>> THEN 0 ELSE Head(bucket).count + Learned(Tail(bucket))

LearnUtterances ==
  { <<"all">>,
    Ph(<<"clear", "all">>),
    Ph(<<"replace", "all", "with", "foo">>),
    Ph(<<"replace", "all", "with", "bar">>) }

\* history of the replace commands that changed the text: how often each
\* (scope, target, replacement) went through _handle_replace_pattern to its
\* undo_append return, counted up to MaxCount
Observe(obs, r, app_id) ==
  With([c \in {_strip_command_preface(_normalize_spaces(r.heard))} |->
    IF r.path = "heuristic" /\ r.action = "undo_append"
       /\ ~ClearMatches(c) /\ ReplaceMatches(c)
    THEN With([k \in {<<app_id, LowSeq(_normalize_spaces(ReplaceTarget(c))),
                         _normalize_spaces(ReplaceReplacement(c))>>} |->
           [x \in DOMAIN obs \cup {k} |->
              IF x # k THEN obs[x]
              ELSE IF k \notin DOMAIN obs THEN 1
              ELSE IF obs[k] < MaxCount THEN obs[k] + 1 ELSE MaxCount]])
    ELSE obs])

\* one call of smart_update_state while the window of application app_id is
\* the active one (get_context().app_id)
SmartUpdateInApp ==
  /\ ret.op = "none"
  /\ \E utterance \in LearnUtterances, app_id \in Apps :
       \E r \in {smart_update_state(M, utterance, "heuristic", FALSE, NoConf, app_id,
                                    NoResult, NoResult)} :
         /\ WithinBounds(r.m)
         /\ Len(r.m.output_text) <= MaxLearnLen
         /\ Learned(r.m.store.global) + Learned(r.m.store.app) <= MaxLearned
         /\ Install(r.m)
         /\ adaptive_cache' = r.m.store
         /\ observed' = Observe(observed, r, app_id)
         /\ ret' = [NoRet EXCEPT !.op = "smart_update_state", !.utterance = utterance,
                                 !.mode = "heuristic", !.pre = M, !.app_id = app_id,
                                 !.prev_output = r.prev_output,
                                 !.new_output = r.new_output,
                                 !.action = r.action, !.llm_calls = r.llm_calls,
                                 !.path = r.path, !.heard = r.heard]
  /\ UNCHANGED <<lock, pc, seen, sessions, health, main, streamer>>

NextLearn == SmartUpdateInApp \/ ResetTranscript \/ Return

\* _save_json_blob on the adaptive dictionary: disk is the file with the
\* module's cache of it; an OSError while writing returns before cache.update
_save_json_blob(disk, data, write_ok) ==
  IF ~write_ok THEN disk ELSE [file |-> data, cache |-> data]

\* a call of smart_update_state that learns a replacement while the adaptive
\* dictionary file cannot be written (open or json.dump raises OSError)
SmartUpdateWriteFails ==
  /\ ret.op = "none"
  /\ \E utterance \in Utterances, app_id \in {NoApp} :
       \E r \in {smart_update_state(M, utterance, "heuristic", FALSE, NoConf, app_id,
                                    NoResult, NoResult)} :
         /\ r.m.store # store
         /\ WithinBounds(r.m)
         /\ \E saved \in {_save_json_blob([file |-> store, cache |-> adaptive_cache],
                                          r.m.store, FALSE)} :
              /\ store' = saved.file
              /\ adaptive_cache' = saved.cache
         /\ segments' = r.m.segments
         /\ output_text' = r.m.output_text
         /\ profile' = r.m.profile
         /\ ret' = [NoRet EXCEPT !.op = "smart_update_state", !.utterance = utterance,
                                 !.mode = "heuristic", !.pre = M, !.app_id = app_id,
                                 !.prev_output = r.prev_output,
                                 !.new_output = r.new_output,
                                 !.action = r.action, !.llm_calls = r.llm_calls,
                                 !.path = r.path, !.heard = r.heard,
                                 !.write_ok = FALSE]
  /\ UNCHANGED <<lock, pc, seen, observed, sessions, health, main, streamer>>

NextWriteFails == SmartUpdateState \/ SmartUpdateWriteFails \/ Return

SpecWriteFails == Init /\ [][NextWriteFails]_vars

SpecLearn == Init /\ [][NextLearn]_vars

\* ------------------------------------------------------------------------
\* Dictionary substitution on its own: _apply_personal_dictionary applied to a
\* text under every adaptive store the replace commands can have written for
\* the triggers adelant (also in the static dictionary) and all
\* ------------------------------------------------------------------------
\* the entries a bucket can hold for one trigger: none, or a replacement with
\* a count up to the promotion threshold
EntriesFor(key) ==
  { <<>> } \cup { << [key |-> key, to |-> to, count |-> n] >> :
                    to \in { <<"foo">>, <<"bar">> }, n \in 1..ADAPTIVE_MIN_COUNT }

Buckets == { a \o b : a \in EntriesFor(<<"adelant">>), b \in EntriesFor(<<"all">>) }

DictTexts == { <<"adelant">>, <<"^all">>, Ph(<<"adelant", "all">>) }

InitDict ==
  /\ segments = M0.segments
  /\ output_text = M0.output_text
  /\ \E global \in Buckets, app \in Buckets : store = [global |-> global, app |-> app]
  /\ profile = M0.profile
  /\ ret = NoRet
  /\ lock = Free
  /\ pc = [t \in Threads |-> "idle"]
  /\ seen = [t \in Threads |-> <<>>]
  /\ observed = <<>>
  /\ adaptive_cache = M0.store
  /\ sessions = NoSessions
  /\ health = StreamingHealth
  /\ main = AppStart
  /\ streamer = StreamingTranscriber

\* one call of _apply_personal_dictionary(text, app_id)
ApplyPersonalDictionary ==
  /\ ret.op = "none"
  /\ \E text \in DictTexts, app_id \in Apps :
       ret' = [NoRet EXCEPT !.op = "_apply_personal_dictionary", !.utterance = text,
                            !.app_id = app_id, !.pre = M,
                            !.heard = _apply_personal_dictionary(store, text, app_id)]
  /\ UNCHANGED <<segments, output_text, store, profile, lock, pc, seen, observed, adaptive_cache, sessions, health, main, streamer>>

NextDict == ApplyPersonalDictionary \/ Return

SpecDict == InitDict /\ [][NextDict]_vars

\* ------------------------------------------------------------------------
\* StreamingHealth (src/streaming_transcriber.py)
\* ------------------------------------------------------------------------
MaxChunks == 6   \* chunk results recorded between two reset() calls

Errors == {"Empty transcription result", "Unknown error"}

record_success(h) ==
  [h EXCEPT !.total_chunks = @ + 1,
            !.successful_chunks = @ + 1,
            !.consecutive_failures = 0,
            !.last_success_time = "time",
            !.is_healthy = TRUE]

\* fault: fallback is entered on the third failure since reset, consecutive or not
record_failure_counts_all(h, error) ==
  With([n \in {h.failed_chunks + 1} |->
    [h EXCEPT !.total_chunks = @ + 1,
              !.failed_chunks = n,
              !.consecutive_failures = @ + 1,
              !.last_error = error,
              !.is_healthy = IF n >= 3 THEN FALSE ELSE @,
              !.fallback_mode = IF n >= 3 THEN TRUE ELSE @]])

record_failure(h, error) ==
  With([n \in {h.consecutive_failures + 1} |->
    [h EXCEPT !.total_chunks = @ + 1,
              !.failed_chunks = @ + 1,
              !.consecutive_failures = n,
              !.last_error = error,
              !.is_healthy = IF n >= 3 THEN FALSE ELSE @,
              !.fallback_mode = IF n >= 3 THEN TRUE ELSE @]])

\* StreamingHealth.reset
reset(h) ==
  [h EXCEPT !.total_chunks = 0, !.successful_chunks = 0, !.failed_chunks = 0,
            !.consecutive_failures = 0, !.last_error = "None",
            !.last_success_time = "None", !.is_healthy = TRUE,
            !.fallback_mode = FALSE]

\* _process_chunk got a text for the chunk
RecordSuccess ==
  /\ health.total_chunks < MaxChunks
  /\ health' = record_success(health)
  /\ observed' = Append(observed, "success")
  /\ UNCHANGED <<segments, output_text, store, profile, ret, lock, pc, seen,
                 adaptive_cache, sessions, main, streamer>>

\* _process_chunk ran out of retries
RecordFailure ==
  /\ health.total_chunks < MaxChunks
  /\ \E error \in Errors : health' = record_failure(health, error)
  /\ observed' = Append(observed, "failure")
  /\ UNCHANGED <<segments, output_text, store, profile, ret, lock, pc, seen,
                 adaptive_cache, sessions, main, streamer>>

\* start() and reset() of the transcriber
ResetHealth ==
  /\ health' = reset(health)
  /\ observed' = <<>>
  /\ UNCHANGED <<segments, output_text, store, profile, ret, lock, pc, seen,
                 adaptive_cache, sessions, main, streamer>>

NextHealth == RecordSuccess \/ RecordFailure \/ ResetHealth

SpecHealth == Init /\ [][NextHealth]_vars

\* ------------------------------------------------------------------------
\* Functions applied to bounded inputs
\* ------------------------------------------------------------------------
\* the values of the CLEANUP_STRICTNESS setting
Strictnesses == {"conservative", "balanced", "aggressive"}

\* cleanup_level arguments: the three levels, None and an unknown word
Levels == {"basic", "balanced", "aggressive", NoLevel, "foo"}

\* confidences in percent around CONFIDENCE_THRESHOLD, and None
Confidences ==
  {NoConf, 0, CONFIDENCE_THRESHOLD - 1, CONFIDENCE_THRESHOLD, CONFIDENCE_THRESHOLD + 1, 100}

CleanupTexts ==
  { Ph(<<"this", "is", "like", "basically", "actually", "foo">>),
    Ph(<<"foo", "bar", "foo", "bar">>),
    Ph(<<"um", "this", "this", "is", "honestly", "foo">>) }

\* _effective_cleanup_level and _cleanup_disfluencies under every setting of
\* CLEANUP_STRICTNESS
CleanupDisfluenciesCall ==
  /\ ret.op = "none"
  /\ \E strictness \in Strictnesses, conf \in Confidences, cleanup_level \in Levels,
        text \in CleanupTexts :
       ret' = [NoRet EXCEPT
                 !.op = "_cleanup_disfluencies",
                 !.args = [strictness |-> strictness, conf |-> conf,
                           cleanup_level |-> cleanup_level, text |-> text],
                 !.result = [level |-> EffectiveCleanupLevel(strictness, conf, cleanup_level),
                             text |-> CleanupDisfluencies(strictness, text, conf,
                                                          cleanup_level)]]
  /\ UNCHANGED <<segments, output_text, store, profile, lock, pc, seen, observed,
                 adaptive_cache, sessions, health, main, streamer>>

\* fault: undo / delete / scratch is tried before the advanced commands
RuleOf_undo_before_advanced(m, utterance) ==
  With([raw \in {_normalize_spaces(utterance)} |->
  With([command_text \in {_strip_command_preface(raw)} |->
    IF raw = <<>> THEN "empty"
    ELSE IF _detect_setting_command(raw).type # "none" THEN "settings"
    ELSE IF _resolve_snippet(raw) # <<>> THEN "snippet"
    ELSE IF ClearMatches(command_text) THEN "clear"
    ELSE IF ReplaceMatches(command_text) THEN "replace"
    ELSE IF IgnoreTrailingMatches(command_text) \/ IgnoreMatches(command_text) THEN "ignore"
    ELSE IF UndoMatches(command_text) THEN "undo"
    ELSE IF _handle_advanced_delete(m, command_text).action # "ignore"
         THEN "advanced_delete"
    ELSE IF _handle_formatting_commands(m, command_text).action # "ignore"
         THEN "formatting"
    ELSE IF _handle_advanced_replace(m, command_text).action # "ignore"
         THEN "advanced_insert"
    ELSE "content"])])

\* the rule of apply_heuristic that handles the utterance in state m
RuleOf(m, utterance) ==
  With([raw \in {_normalize_spaces(utterance)} |->
  With([command_text \in {_strip_command_preface(raw)} |->
    IF raw = <<>> THEN "empty"
    ELSE IF _detect_setting_command(raw).type # "none" THEN "settings"
    ELSE IF _resolve_snippet(raw) # <<>> THEN "snippet"
    ELSE IF ClearMatches(command_text) THEN "clear"
    ELSE IF ReplaceMatches(command_text) THEN "replace"
    ELSE IF IgnoreTrailingMatches(command_text) \/ IgnoreMatches(command_text) THEN "ignore"
    ELSE IF _handle_advanced_delete(m, command_text).action # "ignore"
         THEN "advanced_delete"
    ELSE IF _handle_formatting_commands(m, command_text).action # "ignore"
         THEN "formatting"
    ELSE IF _handle_advanced_replace(m, command_text).action # "ignore"
         THEN "advanced_insert"
    ELSE IF UndoMatches(command_text) THEN "undo"
    ELSE "content"])])

\* utterances of every rule, and sentences that contain command words
ClassifyUtterances ==
  { <<"foo">>,
    Ph(<<"this", "is", "a", "clear", "foo">>),
    Ph(<<"tone", "formal">>),
    Ph(<<"please", "tone", "formal">>),
    Ph(<<"clear", "all">>),
    Ph(<<"replace", "bar", "with", "foo">>),
    Ph(<<"never", "mind">>),
    Ph(<<"scratch", "that">>),
    Ph(<<"scratch", "that", "and", "write", "bar">>),
    Ph(<<"undo", "last", "sentence">>),
    Ph(<<"make", "it", "bold">>),
    Ph(<<"insert", "foo", "after", "bar">>),
    Ph(<<"rewrite", "formal">>),
    Ph(<<"fix", "the", "grammar">>),
    Ph(<<"undo", "that", "make", "it", "bold">>),
    Ph(<<"make", "it", "bold", "insert", "foo", "after", "bar">>),
    Ph(<<"delete", "last", "sentence", "never", "mind">>),
    Ph(<<"replace", "bar", "with", "undo", "last", "sentence">>),
    <<"bar">>,
    Ph(<<"foo", "bar">>),
    <<"bar", ".", SP, "foo">>,
    Ph(<<"insert", "foo">>),
    Ph(<<"snippet", "foo">>),
    Ph(<<"shortcut", "foo">>) }

MaxEnding == 4   \* the longest run of punctuation and spaces put after a text

\* the runs of at most n symbols out of ". ? ," and the space
RECURSIVE Endings(_)
Endings(n) ==
  IF n = 0 THEN {<<>>}
  ELSE Endings(n - 1)
       \cup { Append(e, c) : e \in { x \in Endings(n - 1) : Len(x) = n - 1 },
                             c \in {".", "?", ",", SP} }

\* a plain sentence followed by every ending
PunctTexts == { <<"foo">> \o e : e \in Endings(MaxEnding) }

\* transcripts the utterance arrives at: empty, one segment, two segments
ClassifyStates ==
  { M0,
    [M0 EXCEPT !.segments = << <<"^foo", SP, "bar", ".">> >>,
               !.output_text = <<"^foo", SP, "bar", ".">>],
    [M0 EXCEPT !.segments = << <<"^foo", ".">>, <<"^bar", ".">> >>,
               !.output_text = <<"^foo", ".", SP, "^bar", ".">>] }

\* apply_heuristic and needs_intent_handling on the same utterance
ApplyHeuristicCall ==
  /\ ret.op = "none"
  /\ \E utterance \in ClassifyUtterances \cup PunctTexts, m \in ClassifyStates :
       \E r \in {apply_heuristic(m, utterance, NoApp, NoConf)} :
         ret' = [NoRet EXCEPT
                   !.op = "apply_heuristic",
                   !.args = [utterance |-> utterance, m |-> m],
                   !.result = [rule |-> RuleOf(m, utterance),
                               transform |-> _detect_transform_command(utterance),
                               needs |-> needs_intent_handling(utterance),
                               action |-> r.action, m |-> r.m]]
  /\ UNCHANGED <<segments, output_text, store, profile, lock, pc, seen, observed,
                 adaptive_cache, sessions, health, main, streamer>>

\* _normalize_segment applied to a text and again to its own result
NormalizeSegmentCall ==
  /\ ret.op = "none"
  /\ \E text \in PunctTexts \cup CleanupTexts,
        conf \in {NoConf, CONFIDENCE_THRESHOLD - 1, CONFIDENCE_THRESHOLD} :
       \E once \in {_normalize_segment(text, conf)} :
         ret' = [NoRet EXCEPT
                   !.op = "_normalize_segment",
                   !.args = [text |-> text, conf |-> conf],
                   !.result = [once |-> once, twice |-> _normalize_segment(once, conf)]]
  /\ UNCHANGED <<segments, output_text, store, profile, lock, pc, seen, observed,
                 adaptive_cache, sessions, health, main, streamer>>

\* paste_utils.longest_common_prefix: the while loop from position idx
RECURSIVE longest_common_prefix_from(_, _, _)
longest_common_prefix_from(a, b, idx) ==
  IF idx < Len(a) /\ idx < Len(b) /\ a[idx + 1] = b[idx + 1]
  THEN longest_common_prefix_from(a, b, idx + 1)
  ELSE idx

longest_common_prefix(a, b) == longest_common_prefix_from(a, b, 0)

\* prev_text or "": None (written NoText, not a text of characters) counts as
\* the empty string
NoText == <<"None">>
OrEmpty(t) == IF t = NoText THEN <<>> ELSE t

\* fault: the characters to delete are counted on the new text
compute_delta_counts_new(prev_text, new_text) ==
  With([lcp \in {longest_common_prefix(OrEmpty(prev_text), OrEmpty(new_text))} |->
    [to_delete |-> Len(OrEmpty(new_text)) - lcp,
     to_insert |-> Drop(OrEmpty(new_text), lcp)]])

compute_delta(prev_text, new_text) ==
  With([lcp \in {longest_common_prefix(OrEmpty(prev_text), OrEmpty(new_text))} |->
    [to_delete |-> Len(OrEmpty(prev_text)) - lcp,
     to_insert |-> Drop(OrEmpty(new_text), lcp)]])

MaxDeltaLen == 3   \* the longest text handed to compute_delta

\* the texts of at most n characters out of a, b and the space
RECURSIVE CharTexts(_)
CharTexts(n) ==
  IF n = 0 THEN {<<>>}
  ELSE CharTexts(n - 1)
       \cup { Append(t, c) : t \in { x \in CharTexts(n - 1) : Len(x) = n - 1 },
                             c \in {"a", "b", SP} }

\* paste_delta computes the delta between the pasted text and the new one
ComputeDeltaCall ==
  /\ ret.op = "none"
  /\ \E prev_text \in CharTexts(MaxDeltaLen) \cup {NoText},
        new_text \in CharTexts(MaxDeltaLen) \cup {NoText} :
       ret' = [NoRet EXCEPT
                 !.op = "compute_delta",
                 !.args = [prev_text |-> prev_text, new_text |-> new_text],
                 !.result = compute_delta(prev_text, new_text)]
  /\ UNCHANGED <<segments, output_text, store, profile, lock, pc, seen, observed,
                 adaptive_cache, sessions, health, main, streamer>>

\* utterances and replies under which smart_update_state can return clear
ClearUtterances ==
  { <<"foo">>, Ph(<<"clear", "all">>), Ph(<<"undo", "last", "sentence">>),
    Ph(<<"scratch", "that">>), Ph(<<"rewrite", "formal">>) }

ClearResponses ==
  { NoResult,
    Json(<<"^bar", ".">>, <<"clear">>),
    Json(<<"^bar", ".">>, <<SP, "^clear", SP>>),
    Json(<<>>, <<"clear">>),
    Json(<<"^bar", ".">>, <<"append">>),
    JsonNoText(<<"clear">>) }

\* smart_update_state on a transcript of no, one and two segments
SmartUpdateStateCall ==
  /\ ret.op = "none"
  /\ \E m \in ClassifyStates, utterance \in ClearUtterances, mode \in Modes,
        allow_llm \in BOOLEAN :
       \E resp1 \in IF TransformCall(m, utterance) THEN ClearResponses ELSE {NoResult} :
         \E resp2 \in IF mode = "llm" /\ allow_llm /\ resp1.kind # "json"
                      THEN ClearResponses ELSE {NoResult} :
           ret' = [NoRet EXCEPT
                     !.op = "smart_update_state",
                     !.args = [m |-> m, utterance |-> utterance, mode |-> mode,
                               allow_llm |-> allow_llm, resp1 |-> resp1, resp2 |-> resp2],
                     !.result = smart_update_state(m, utterance, mode, allow_llm, NoConf,
                                                   NoApp, resp1, resp2)]
  /\ UNCHANGED <<segments, output_text, store, profile, lock, pc, seen, observed,
                 adaptive_cache, sessions, health, main, streamer>>

\* utterances of two clauses, the second one opened by a correction marker
FirstClauses == { Ph(<<"foo", "bar">>), Ph(<<"i", "like", "it">>), Ph(<<"use", "foo">>) }

CorrectionMarkers ==
  { <<"no", ",">>, <<"nope">>, <<"sorry", ",">>, Ph(<<"i", "mean">>), <<"actually", ",">>,
    <<"oh", SP, "no", ",", SP, "no", ",">> }

CorrectionRemainders ==
  { <<>>, <<"bar">>, Ph(<<"bar", "foo">>), Ph(<<"like", "that">>), Ph(<<"the", "it">>),
    <<"not", SP, "foo", ",", SP, "bar">>, <<"not", SP, "it", ",", SP, "bar">> }

TwoClauses(first, marker, remainder, ending) ==
  first \o <<".", SP>> \o marker
    \o (IF remainder = <<>> THEN <<>> ELSE <<SP>> \o remainder) \o ending

\* _apply_inline_corrections on every such utterance
ApplyInlineCorrectionsCall ==
  /\ ret.op = "none"
  /\ \E first \in FirstClauses, marker \in CorrectionMarkers,
        remainder \in CorrectionRemainders, ending \in {<<>>, <<".">>} :
       ret' = [NoRet EXCEPT
                 !.op = "_apply_inline_corrections",
                 !.args = [first |-> first, marker |-> marker,
                           remainder |-> remainder \o ending,
                           text |-> TwoClauses(first, marker, remainder, ending)],
                 !.result = [text |-> _apply_inline_corrections(
                                        TwoClauses(first, marker, remainder, ending))]]
  /\ UNCHANGED <<segments, output_text, store, profile, lock, pc, seen, observed,
                 adaptive_cache, sessions, health, main, streamer>>

MaxTokens == 4   \* the longest text, in tokens, handed to _dedupe_overlap

\* the texts of at most n tokens out of "foo" and "bar", single spaces between
RECURSIVE TokenLists(_)
TokenLists(n) ==
  IF n = 0 THEN {<<>>}
  ELSE TokenLists(n - 1)
       \cup { Append(ws, w) : ws \in { x \in TokenLists(n - 1) : Len(x) = n - 1 },
                              w \in {"foo", "bar"} }

TokenTexts == { Ph(ws) : ws \in TokenLists(MaxTokens) }

\* _dedupe_overlap on every pair of texts
DedupeOverlapCall ==
  /\ ret.op = "none"
  /\ \E prev_output \in TokenTexts, segment \in TokenTexts :
       ret' = [NoRet EXCEPT
                 !.op = "_dedupe_overlap",
                 !.args = [prev_output |-> prev_output, segment |-> segment],
                 !.result = [segment |-> _dedupe_overlap(prev_output, segment)]]
  /\ UNCHANGED <<segments, output_text, store, profile, lock, pc, seen, observed,
                 adaptive_cache, sessions, health, main, streamer>>

\* previous texts handed to sync_state_to_output: the transcript's own text,
\* nothing, and a text the transcript does not hold
SyncPrevTexts(m) == { m.output_text, <<>>, <<"^foo", ".">> }

\* replacement texts: empty, blank, the previous text itself, the previous text
\* extended (by a blank, by a sentence, by a word without a space), the previous
\* text cut at a segment boundary and inside a segment, and another text
SyncNewTexts(prev_output) ==
  { <<>>, <<SP>>, prev_output,
    prev_output \o <<SP>>,
    prev_output \o <<SP, "^bar", ".">>,
    prev_output \o <<"bar">>,
    <<"^foo", ".">>, <<"^foo">>,
    <<"^bar", ".">> }

\* sync_state_to_output on a transcript of no, one and two segments
SyncStateToOutputCall ==
  /\ ret.op = "none"
  /\ \E m \in ClassifyStates :
       \E prev_output \in SyncPrevTexts(m) :
         \E new_output \in SyncNewTexts(prev_output) :
           ret' = [NoRet EXCEPT
                     !.op = "sync_state_to_output",
                     !.args = [m |-> m, prev_output |-> prev_output,
                               new_output |-> new_output],
                     !.result = [m |-> sync_state_to_output(m, prev_output, new_output)]]
  /\ UNCHANGED <<segments, output_text, store, profile, lock, pc, seen, observed,
                 adaptive_cache, sessions, health, main, streamer>>

NextFunctions ==
  \/ CleanupDisfluenciesCall
  \/ ApplyHeuristicCall
  \/ NormalizeSegmentCall
  \/ ComputeDeltaCall
  \/ SyncStateToOutputCall
  \/ DedupeOverlapCall
  \/ ApplyInlineCorrectionsCall
  \/ SmartUpdateStateCall
  \/ Return

SpecFunctions == Init /\ [][NextFunctions]_vars

\* ------------------------------------------------------------------------
\* Two calls in a row: what the call before the last one found and did
\* ------------------------------------------------------------------------
PairUtterances ==
  { <<"foo">>, <<"all">>, Ph(<<"scratch", "that">>), Ph(<<"replace", "all", "with", "foo">>) }

PairResponses(prev) ==
  { NoResult,
    Json(<<"foo", SP>>, <<"^undo">>),
    Json(prev \o <<SP, "^bar", ".">>, <<"append">>) }

\* the last two calls, oldest first
Remember(info) ==
  observed' = (IF observed = <<>> THEN <<>> ELSE <<observed[Len(observed)]>>) \o <<info>>

\* a call of smart_update_state: whether it appended a content utterance in
\* heuristic mode, and the transcript it found
CallInfo(m, mode, r) ==
  [appended |-> mode = "heuristic" /\ r.path = "heuristic" /\ r.action = "append"
                /\ RuleOf(m, r.heard) = "content",
   segments |-> m.segments, output_text |-> m.output_text]

SmartUpdateTracked ==
  /\ ret.op = "none"
  /\ \E utterance \in PairUtterances, mode \in Modes :
       \E allow_llm \in {mode = "llm"},
          resp2 \in IF mode = "llm" THEN PairResponses(output_text) ELSE {NoResult} :
         \E r \in {smart_update_state(M, utterance, mode, allow_llm, NoConf, NoApp,
                                       NoResult, resp2)} :
           /\ WithinBounds(r.m)
           /\ Install(r.m)
           /\ adaptive_cache' = r.m.store
           /\ Remember(CallInfo(M, mode, r))
           /\ ret' = [NoRet EXCEPT !.op = "smart_update_state", !.utterance = utterance,
                                   !.mode = mode, !.allow_llm = allow_llm,
                                   !.resp2 = resp2, !.pre = M,
                                   !.prev_output = r.prev_output,
                                   !.new_output = r.new_output,
                                   !.action = r.action, !.llm_calls = r.llm_calls,
                                   !.path = r.path, !.heard = r.heard]
  /\ UNCHANGED <<lock, pc, seen, sessions, health, main, streamer>>

\* the refinement step of the worker between two utterances
SyncTracked ==
  /\ ret.op = "none"
  /\ \E new_output \in SyncTexts(output_text) :
       \E m \in {sync_state_to_output(M, output_text, new_output)} :
         /\ WithinBounds(m)
         /\ Install(m)
         /\ Remember([appended |-> FALSE, segments |-> segments,
                      output_text |-> output_text])
         /\ ret' = [NoRet EXCEPT !.op = "sync_state_to_output", !.pre = M,
                                 !.arg_prev = output_text, !.arg_new = new_output,
                                 !.prev_output = output_text]
  /\ UNCHANGED <<lock, pc, seen, adaptive_cache, sessions, health, main, streamer>>

NextPairs == SmartUpdateTracked \/ SyncTracked \/ Return

SpecPairs == Init /\ [][NextPairs]_vars

\* ------------------------------------------------------------------------
\* Properties of completed calls
\* ------------------------------------------------------------------------
Called == ret.op = "smart_update_state"

\* the text the command rules are matched against
CommandText(utterance) == _strip_command_preface(_normalize_spaces(utterance))

\* the call reached the undo rule of the heuristic: no earlier rule took the
\* utterance the heuristic received
HandledAsUndo ==
  LET c == CommandText(ret.heard) IN
  /\ Called /\ ret.path = "heuristic"
  /\ UndoMatches(c)
  /\ ~ClearMatches(c) /\ ~ReplaceMatches(c)
  /\ ~IgnoreTrailingMatches(c) /\ ~IgnoreMatches(c)
  /\ _handle_advanced_delete(ret.pre, c).action = "ignore"
  /\ _handle_formatting_commands(ret.pre, c).action = "ignore"
  /\ _handle_advanced_replace(ret.pre, c).action = "ignore"

Remainder ==
  _clean_remainder(ret.pre.store, UndoRest(CommandText(ret.heard)), NoApp, ret.conf)

\* words by which the rules recognise a command
CommandKeywords ==
  { "clear", "reset", "wipe", "erase", "start", "delete", "undo", "scratch",
    "remove", "take", "drop", "backspace", "ignore", "skip", "disregard",
    "omit", "don't", "include", "add", "leave", "cancel", "never", "mind",
    "nevermind", "replace", "change", "swap", "tone", "style", "voice",
    "language", "lang", "rewrite", "rephrase", "polish", "improve", "make",
    "fix", "correct", "insert", "snippet", "shortcut", "capitalize",
    "heading", "bold", "italic", "format" }

NoCommandKeywords(utterance) ==
  \A i \in 1..Len(utterance) : Low(utterance[i]) \notin CommandKeywords

\* the reply of the external service that the call adopted
AdoptedCall == Called /\ ret.path \in {"transform", "llm"}
AdoptedResponse == IF ret.path = "transform" THEN ret.resp1 ELSE ret.resp2

UnknownAction(resp) ==
  LET a == LowSeq(_normalize_spaces(Strip(resp.action))) IN
  ~(Len(a) = 1 /\ a[1] \in VALID_ACTIONS)

\* C1: after every completed smart_update_state or sync_state_to_output call and
\* after the per-recording reset, output_text equals the segments joined with
\* single spaces.
C1_OutputIsJoinOfSegments == output_text = _join_segments(segments)

\* C2: a clear command applied through smart_update_state always returns
\* new_output = "" with action clear and leaves zero segments, whatever state
\* the earlier utterances reached.
C2_ClearAlwaysClears ==
  (Called /\ ClearMatches(CommandText(ret.utterance)))
    => (ret.new_output = <<>> /\ ret.action = "clear" /\ segments = <<>>)

\* C3: an undo command with no remainder applied to a state with no segments
\* returns action ignore and leaves output_text unchanged; the segment count
\* never goes below zero.
C3_UndoOnEmptyIsIgnored ==
  /\ Len(segments) >= 0
  /\ (HandledAsUndo /\ Remainder = <<>> /\ ret.pre.segments = <<>>)
       => (ret.action = "ignore" /\ output_text = ret.pre.output_text)

\* C4: whenever smart_update_state returns action ignore, segments and
\* output_text are exactly what they were before the call and new_output equals
\* previous_output.
C4_IgnoreLeavesTranscript ==
  (Called /\ ret.action = "ignore")
    => /\ segments = ret.pre.segments
       /\ output_text = ret.pre.output_text
       /\ ret.new_output = ret.prev_output

C4_Witness ==
  /\ Called /\ ret.action = "ignore" /\ ret.path = "heuristic"
  /\ IgnoreMatches(CommandText(ret.heard))
  /\ Len(ret.pre.segments) >= 2

\* C5: an undo command with no remainder applied to a state with n >= 1
\* segments removes exactly the last segment: the first n-1 segments are
\* unchanged, new_output is their join and the action is undo.
C5_UndoPopsLastSegment ==
  (HandledAsUndo /\ Remainder = <<>> /\ Len(ret.pre.segments) >= 1)
    => /\ segments = SubSeq(ret.pre.segments, 1, Len(ret.pre.segments) - 1)
       /\ ret.new_output = _join_segments(segments)
       /\ output_text = ret.new_output
       /\ ret.action = "undo"

C5_Witness ==
  /\ HandledAsUndo /\ Remainder = <<>> /\ Len(ret.pre.segments) >= 2
  /\ ret.action = "undo" /\ segments # <<>>

\* C6: an undo command followed by a remainder pops the last segment and pushes
\* the normalized remainder as one new segment, returning action undo_append;
\* all earlier segments are unchanged.
C6_UndoWithRemainderReplacesLast ==
  (HandledAsUndo /\ Remainder # <<>>)
    => LET n == Len(ret.pre.segments)
           kept == IF n = 0 THEN 0 ELSE n - 1
       IN /\ Len(segments) = kept + 1
          /\ \A i \in 1..kept : segments[i] = ret.pre.segments[i]
          /\ segments[kept + 1] = Remainder
          /\ ret.action = "undo_append"

C6_Witness ==
  /\ HandledAsUndo /\ Remainder # <<>> /\ Len(ret.pre.segments) >= 2
  /\ ret.action = "undo_append"
  /\ segments[Len(segments)] # ret.pre.segments[Len(ret.pre.segments)]

\* C7: for a content utterance (no command keywords) that yields action append,
\* new_output starts with previous_output, in heuristic or llm mode.
C7_AppendKeepsCommittedText ==
  (Called /\ NoCommandKeywords(ret.utterance) /\ ret.action = "append")
    => StartsWith(ret.new_output, ret.prev_output)

\* C9: when the external refinement call yields no result, smart_update_state
\* in llm mode returns the same (previous_output, new_output, action) and
\* leaves the same state as heuristic mode for the same state and utterance.
C9_NoResultFallsBackToHeuristic ==
  (Called /\ ret.mode = "llm" /\ ret.resp1 = NoResult /\ ret.resp2 = NoResult)
    => \E h \in {smart_update_state(ret.pre, ret.utterance, "heuristic", ret.allow_llm,
                                    ret.conf, NoApp, NoResult, NoResult)} :
         /\ h.m = M
         /\ h.prev_output = ret.prev_output
         /\ h.new_output = ret.new_output
         /\ h.action = ret.action

C9_Witness ==
  /\ Called /\ ret.mode = "llm" /\ ret.llm_calls >= 1
  /\ ret.resp1 = NoResult /\ ret.resp2 = NoResult
  /\ ret.action = "append" /\ Len(segments) >= 2

\* C10 as stated: an external result whose action is not one of the five valid
\* actions is resolved to append if its text differs from the previous output
\* and to ignore otherwise; the returned action is always a valid one.
C10_UnknownActionByTextOnly ==
  /\ Called => ret.action \in VALID_ACTIONS
  /\ (AdoptedCall /\ UnknownAction(AdoptedResponse))
       => ret.action = (IF AdoptedResponse.updated # ret.prev_output
                        THEN "append" ELSE "ignore")

\* C10 amended: such a result is resolved to append if its text differs from
\* the previous output and still differs from it after dictionary
\* substitution, disfluency cleanup and punctuation; to ignore otherwise; the
\* returned action is always a valid one.
C10_UnknownActionCoerced ==
  /\ Called => ret.action \in VALID_ACTIONS
  /\ (AdoptedCall /\ UnknownAction(AdoptedResponse))
       => LET updated == AdoptedResponse.updated
              polished ==
                _polish_punctuation(
                  _cleanup_disfluencies(
                    _apply_personal_dictionary(ret.pre.store, updated, NoApp),
                    ret.conf, CLEANUP_LEVEL))
          IN ret.action = (IF updated # ret.prev_output /\ polished # ret.prev_output
                           THEN "append" ELSE "ignore")

C10_Witness ==
  /\ AdoptedCall /\ UnknownAction(AdoptedResponse)
  /\ AdoptedResponse.updated # ret.prev_output
  /\ ret.action = "append" /\ ret.prev_output # <<>>

\* the replies the call received from the external service
Replies == {ret.resp1, ret.resp2} \ {NoResult}

\* the same call with the external service giving no reply at all
WithoutReplies ==
  smart_update_state(ret.pre, ret.utterance, ret.mode, ret.allow_llm, ret.conf, NoApp,
                     NoResult, NoResult)

SameOutcome(h) ==
  /\ h.m = M
  /\ h.prev_output = ret.prev_output
  /\ h.new_output = ret.new_output
  /\ h.action = ret.action

C12_NoExternalCallWhenDisallowed ==
  (Called /\ (~ret.allow_llm \/ DICTATION_MODE = "speed")) => ret.llm_calls = 0

\* the replace commands observed at least promotion_threshold times in the
\* scope of the call: <<scope, target, replacement>>
Repeated ==
  { k \in DOMAIN observed : k[1] = ret.app_id /\ observed[k] >= ADAPTIVE_MIN_COUNT }

\* the utterance with target substituted by replacement
Substituted(utterance, target, replacement) ==
  SubPhrases(utterance, SP, <<target>>, replacement)

\* C13: after the same replace(target, replacement) command has been applied
\* promotion_threshold times, a later plain content utterance containing target
\* is taken with target substituted by replacement and appended, with no
\* explicit command (unless it only repeats the end of the transcript).
C13_RepeatedReplaceSubstitutes ==
  \A k \in Repeated :
    (Called /\ NoCommandKeywords(ret.utterance) /\ Contains(ret.utterance, k[2]))
      => /\ ret.heard = Substituted(ret.utterance, k[2], k[3])
         /\ ret.action \in {"append", "ignore"}
         /\ ret.action = "append"
              => /\ Len(segments) = Len(ret.pre.segments) + 1
                 /\ SubSeq(segments, 1, Len(ret.pre.segments)) = ret.pre.segments
                 /\ Contains(segments[Len(segments)], k[3])

\* the buckets of the adaptive store the call consulted
Consulted ==
  IF ret.app_id # NoApp THEN {ret.pre.store.global, ret.pre.store.app}
  ELSE {ret.pre.store.global}

\* the count a consulted bucket records for trigger w is at least the threshold
PromotedTrigger(w) ==
  \E bucket \in Consulted : \E i \in 1..Len(bucket) :
    bucket[i].key = <<w>> /\ bucket[i].count >= ADAPTIVE_MIN_COUNT

\* w was learned, but every consulted bucket counts it below the threshold
UnpromotedTrigger(w) ==
  /\ \E bucket \in Consulted : \E i \in 1..Len(bucket) : bucket[i].key = <<w>>
  /\ ~PromotedTrigger(w)

StaticTrigger(w) ==
  \E i \in 1..Len(_DEFAULT_DICTIONARY) : _DEFAULT_DICTIONARY[i].key = <<w>>

\* C14: a learned trigger whose count is below promotion_threshold is never
\* substituted into dictated text: an utterance none of whose words has a
\* count >= promotion_threshold is taken as it was spoken, and appended content
\* still holds the learned but unpromoted triggers it was spoken with.
C14_UnpromotedNeverSubstituted ==
  Called =>
    /\ (\A i \in 1..Len(ret.utterance) :
           ~PromotedTrigger(Low(ret.utterance[i])) /\ ~StaticTrigger(Low(ret.utterance[i])))
         => ret.heard = ret.utterance
    /\ \A i \in 1..Len(ret.utterance) :
         (UnpromotedTrigger(Low(ret.utterance[i])) /\ NoCommandKeywords(ret.utterance)
            /\ ret.action = "append")
           => Contains(segments[Len(segments)], <<Low(ret.utterance[i])>>)

C14_Witness ==
  /\ Called /\ ret.utterance = <<"all">> /\ UnpromotedTrigger("all")
  /\ USER_ADAPTATION_ENABLED
  /\ ret.action = "append" /\ segments[Len(segments)] = <<"^all", ".">>

\* the learned corrections <<target, replacement>> the call applied by itself
\* to the utterance
AutoApplied ==
  { p \in UNION { { <<bucket[i].key, bucket[i].to>> : i \in 1..Len(bucket) } :
                    bucket \in {ret.pre.store.global, ret.pre.store.app} } :
      /\ Len(p[1]) = 1
      /\ Contains(ret.utterance, p[1])
      /\ ret.heard # ret.utterance
      /\ ret.heard = Substituted(ret.utterance, p[1], p[2]) }

\* how often replace(target, replacement) has been observed in the global scope
\* or in the scope of the active application
ObservedCount(target, replacement) ==
  LET ks == { k \in DOMAIN observed :
                k[1] \in {NoApp, ret.app_id} /\ k[2] = target /\ k[3] = replacement }
      mx[S \in SUBSET ks] ==
        IF S = {} THEN 0
        ELSE LET k == CHOOSE k \in S : TRUE
                 rest == mx[S \ {k}]
             IN IF observed[k] > rest THEN observed[k] ELSE rest
  IN mx[ks]

\* C15: a learned correction target -> replacement is applied automatically
\* only after that same pair has been observed in at least promotion_threshold
\* successful replace commands; with a threshold of 2 or more a replacement
\* observed only once for a target is never auto-applied.
C15_OnlyRepeatedPairsApplied ==
  Called => \A p \in AutoApplied : ObservedCount(p[1], p[2]) >= ADAPTIVE_MIN_COUNT

\* the call was taken by the replace rule of the heuristic
HandledAsReplace ==
  /\ Called /\ ret.path = "heuristic"
  /\ ~ClearMatches(CommandText(ret.heard))
  /\ ReplaceMatches(CommandText(ret.heard))

\* the count a bucket records for a trigger (0 when it has no entry)
CountOf(bucket, key) ==
  IF \E i \in 1..Len(bucket) : bucket[i].key = key
  THEN bucket[CHOOSE i \in 1..Len(bucket) : bucket[i].key = key].count
  ELSE 0

\* C16: the adaptive store changes only in a replace command that actually
\* changes output_text, and then the count of its target is incremented by
\* exactly one and no other entry changes; content, undo, clear, ignore,
\* settings and no-op replace utterances (and sync and reset) leave the store
\* unchanged.
C16_StoreChangesOnlyByReplace ==
  (ret.op # "none" /\ store # ret.pre.store)
    => /\ HandledAsReplace
       /\ ret.action = "undo_append"
       /\ output_text # ret.pre.output_text
       /\ \E key \in {LowSeq(_normalize_spaces(ReplaceTarget(CommandText(ret.heard))))} :
            /\ CountOf(store.global, key) = CountOf(ret.pre.store.global, key) + 1
            /\ Len(store.global) \in {Len(ret.pre.store.global), Len(ret.pre.store.global) + 1}
            /\ \A i \in 1..Len(ret.pre.store.global) :
                 \/ store.global[i] = ret.pre.store.global[i]
                 \/ ret.pre.store.global[i].key = key /\ store.global[i].key = key
            /\ store.app = ret.pre.store.app

C16_Witness ==
  /\ HandledAsReplace /\ store # ret.pre.store
  /\ ret.pre.store.global # <<>>
  /\ CountOf(store.global, <<"all">>) = 2
  /\ Len(ret.pre.segments) >= 2

\* the entry of a bucket for trigger w, if its count has reached the threshold
PromotedIn(bucket, w) ==
  { bucket[i].to : i \in { j \in 1..Len(bucket) :
      bucket[j].key = <<w>> /\ bucket[j].count >= ADAPTIVE_MIN_COUNT } }

\* what the word c is to become: per-app over global over static, promoted
\* entries only
Precedence(c) ==
  LET w == Low(c)
      app == IF ret.app_id # NoApp THEN PromotedIn(ret.pre.store.app, w) ELSE {}
      global == PromotedIn(ret.pre.store.global, w)
      static == { _DEFAULT_DICTIONARY[i].to :
                  i \in { j \in 1..Len(_DEFAULT_DICTIONARY) :
                            _DEFAULT_DICTIONARY[j].key = <<w>> } }
  IN IF app # {} THEN CHOOSE to \in app : TRUE
     ELSE IF global # {} THEN CHOOSE to \in global : TRUE
     ELSE IF static # {} THEN CHOOSE to \in static : TRUE
     ELSE <<c>>

RECURSIVE ByPrecedence(_)
ByPrecedence(t) ==
  IF t = <<>> THEN <<>> ELSE Precedence(Head(t)) \o ByPrecedence(Tail(t))

\* C17: when the same trigger is defined in several dictionaries, substitution
\* follows static < adaptive-global < adaptive-per-app: a promoted per-app
\* entry wins over the global one, any promoted adaptive entry wins over the
\* static one, and unpromoted entries never override anything.
C17_DictionaryPrecedence ==
  ret.op = "_apply_personal_dictionary" => ret.heard = ByPrecedence(ret.utterance)

C17_Witness ==
  /\ ret.op = "_apply_personal_dictionary" /\ ret.app_id # NoApp
  /\ ret.utterance = Ph(<<"adelant", "all">>)
  /\ PromotedIn(ret.pre.store.app, "adelant") = { <<"bar">> }
  /\ PromotedIn(ret.pre.store.global, "adelant") = { <<"foo">> }
  /\ PromotedIn(ret.pre.store.global, "all") = { <<"bar">> }
  /\ CountOf(ret.pre.store.app, <<"all">>) = 1
  /\ ret.heard = Ph(<<"bar", "bar">>)

\* C18: an in-place replace command that changes the text is an undo_append
\* that pops the last segment and pushes the replacement: the number of
\* segments is preserved and the segments before the last one remain separate
\* and unchanged.
C18_ReplaceKeepsEarlierSegments ==
  (HandledAsReplace /\ output_text # ret.pre.output_text)
    => /\ ret.action = "undo_append"
       /\ Len(segments) = Len(ret.pre.segments)
       /\ \A i \in 1..(Len(ret.pre.segments) - 1) : segments[i] = ret.pre.segments[i]

\* C19 as stated: smart_update_state has no effects other than on the
\* TranscriptState passed to it and on the on-disk adaptive store: no other
\* persistent file or process-wide setting changes as a result of any utterance.
C19_OnlyStateAndStore ==
  Called => profile = ret.pre.profile

\* C19 amended: apart from the TranscriptState and the adaptive store, the one
\* thing a call changes is the profiles file, and only for a tone or language
\* settings command: the named field of the profile in scope takes the spoken
\* value, and the transcript and the adaptive store are then left alone.
C19_OnlyStateStoreAndProfile ==
  (Called /\ profile # ret.pre.profile)
    => \E cmd \in {_detect_setting_command(ret.heard)},
          scope \in {IF ret.app_id # NoApp THEN "app" ELSE "default"} :
         /\ ret.path = "setting" /\ ret.action = "ignore"
         /\ cmd.type \in {"tone", "language"}
         /\ profile = [ret.pre.profile EXCEPT ![scope][cmd.type] = cmd.value]
         /\ segments = ret.pre.segments /\ output_text = ret.pre.output_text
         /\ store = ret.pre.store

C19_Witness ==
  /\ Called /\ ret.path = "setting"
  /\ profile.default.tone = <<"formal">> /\ ret.pre.profile.default.tone = <<"polite">>
  /\ profile.default.language = ret.pre.profile.default.language
  /\ segments # <<>>

\* what the call handed to _save_json_blob: the store with the learned increment
LearnedStore ==
  smart_update_state(ret.pre, ret.utterance, "heuristic", FALSE, NoConf, ret.app_id,
                     NoResult, NoResult).m.store

\* C21: a failure to write the adaptive dictionary file during a learning
\* event raises no exception (the call returns its result), and the learned
\* increment stays visible to the lookups of the process, which read the
\* module's cache of the file.
C21_LearningSurvivesWriteFailure ==
  (Called /\ ~ret.write_ok) =>
     /\ ret.action = "undo_append"
     /\ adaptive_cache = LearnedStore

\* the confidence is known and below the threshold
LowConfidence(conf) == conf # NoConf /\ conf < CONFIDENCE_THRESHOLD

\* how often the words occur in t
Occurrences(t, words) == Cardinality({ i \in 1..Len(t) : Low(t[i]) \in words })

HedgeWords == {"basically", "literally", "honestly", "actually", "like"}

\* C22: for every configured cleanup level and every strictness, when the
\* confidence is known and below the threshold the effective level is never
\* aggressive: the hedge words of the text are all kept and a repeated phrase
\* is not collapsed.
C22_LowConfidenceNeverAggressive ==
  (ret.op = "_cleanup_disfluencies" /\ LowConfidence(ret.args.conf)) =>
     /\ ret.result.level # "aggressive"
     /\ Occurrences(ret.result.text, HedgeWords) = Occurrences(ret.args.text, HedgeWords)
     /\ ret.args.text = Ph(<<"foo", "bar", "foo", "bar">>) => ret.result.text = ret.args.text

C22_Witness ==
  /\ ret.op = "_cleanup_disfluencies"
  /\ ret.args.strictness = "aggressive" /\ ret.args.cleanup_level = "aggressive"
  /\ ret.args.conf = CONFIDENCE_THRESHOLD - 1
  /\ ret.result.level = "balanced"
  /\ ret.result.text = Ph(<<"this", "is", "like", "basically", "actually", "foo">>)

\* the level the strictness policy of C30 gives, with and without the rule
\* that takes aggressive back to balanced at low confidence
PolicyLevel(strictness, conf, level, low_rule) ==
  IF strictness = "conservative" /\ level = "aggressive" THEN "balanced"
  ELSE IF strictness = "conservative" /\ level = "balanced" /\ LowConfidence(conf)
       THEN "basic"
  ELSE IF strictness = "aggressive" /\ level = "balanced"
          /\ conf # NoConf /\ conf >= CONFIDENCE_THRESHOLD
       THEN "aggressive"
  ELSE IF low_rule /\ level = "aggressive" /\ LowConfidence(conf) THEN "balanced"
  ELSE level

\* C30 as stated: conservative turns aggressive into balanced always and
\* balanced into basic below the threshold, aggressive strictness turns
\* balanced into aggressive at or above the threshold, and in every other
\* case, and when the confidence is unknown, the configured level is kept.
C30_StrictnessPolicy ==
  ret.op = "_cleanup_disfluencies" =>
    ret.result.level = PolicyLevel(ret.args.strictness, ret.args.conf,
                                   ConfiguredLevel(ret.args.cleanup_level), FALSE)

\* C30 (amended): as stated, except that a configured level of aggressive
\* becomes balanced whenever the confidence is known and below the threshold,
\* under every strictness.
C30_StrictnessPolicyWithLowRule ==
  ret.op = "_cleanup_disfluencies" =>
    ret.result.level = PolicyLevel(ret.args.strictness, ret.args.conf,
                                   ConfiguredLevel(ret.args.cleanup_level), TRUE)

C30_Witness ==
  /\ ret.op = "_cleanup_disfluencies"
  /\ ret.args.strictness = "aggressive" /\ ret.args.cleanup_level = "balanced"
  /\ ret.args.conf = CONFIDENCE_THRESHOLD
  /\ ret.result.level = "aggressive"

\* C23: needs_intent_handling is true for every utterance the classifier
\* handles as a command (settings, snippet, clear, replace, ignore, undo,
\* advanced delete, formatting, advanced insert, rewrite, grammar fix) and
\* false for every utterance it handles as plain content.
C23_NeedsIntentMatchesClassifier ==
  ret.op = "apply_heuristic" =>
    (ret.result.needs <=>
       (ret.result.rule \notin {"content", "empty"} \/ ret.result.transform # "none"))

\* t ends in a terminal mark that no other terminal mark precedes
EndsInOneMark(t) ==
  /\ t # <<>>
  /\ t[Len(t)] \in SentenceEnd
  /\ Len(t) > 1 => t[Len(t) - 1] \notin SentenceEnd

\* C24: a content utterance that is appended leaves new_output ending in
\* exactly one terminal punctuation mark (one of . ! ?), whatever punctuation
\* or lack of it the utterance ended with.
C24_AppendEndsInOneMark ==
  (ret.op = "apply_heuristic" /\ ret.result.rule = "content" /\ ret.result.action = "append")
    => EndsInOneMark(ret.result.m.output_text)

\* C25: the Normalizer is idempotent: for every text and confidence,
\* normalizing the result of normalizing the text gives the same text again.
C25_NormalizerIdempotent ==
  ret.op = "_normalize_segment" => ret.result.twice = ret.result.once

\* the number of failures at the end of the record, up to the last success
RECURSIVE FailuresAtEnd(_)
FailuresAtEnd(log) ==
  IF log = <<>> \/ log[Len(log)] = "success" THEN 0
  ELSE 1 + FailuresAtEnd(SubSeq(log, 1, Len(log) - 1))

\* three failures were recorded in a row at some point of the record
ThreeInARow(log) ==
  \E i \in 1..(Len(log) - 2) : \A j \in i..(i + 2) : log[j] = "failure"

\* C26: since the last reset(), fallback_mode is true if and only if three or
\* more failures were recorded in a row at some point; a recorded success
\* sets the consecutive-failure count to zero (the count is the number of
\* failures since the last success), so fewer than three failures in a row
\* never trigger fallback.
C26_FallbackIffThreeInARow ==
  /\ health.fallback_mode <=> ThreeInARow(observed)
  /\ health.consecutive_failures = FailuresAtEnd(observed)

C26_Witness ==
  /\ health.fallback_mode /\ health.consecutive_failures = 0 /\ health.is_healthy
  /\ health.failed_chunks = 3 /\ health.successful_chunks = 2

\* the length of the longest common prefix of a and b
CommonPrefix(a, b) ==
  CHOOSE k \in 0..Len(a) :
    /\ k <= Len(b)
    /\ \A i \in 1..k : a[i] = b[i]
    /\ (k < Len(a) /\ k < Len(b)) => a[k + 1] # b[k + 1]

\* C27: for all texts prev and new, compute_delta(prev, new) = (d, ins) is
\* such that prev without its last d characters, followed by ins, equals new;
\* d is len(prev) minus the length of the longest common prefix, so d is
\* never negative and nothing of the common prefix is deleted.
C27_DeltaRebuildsNew ==
  ret.op = "compute_delta" =>
    LET prev == OrEmpty(ret.args.prev_text)
        new == OrEmpty(ret.args.new_text)
        d == ret.result.to_delete
    IN /\ d = Len(prev) - CommonPrefix(prev, new)
       /\ d >= 0 /\ d <= Len(prev)
       /\ SubSeq(prev, 1, Len(prev) - d) \o ret.result.to_insert = new

C27_Witness ==
  /\ ret.op = "compute_delta"
  /\ ret.args.prev_text = <<"a", "b", "a">> /\ ret.args.new_text = <<"a", "a">>
  /\ ret.result = [to_delete |-> 2, to_insert |-> <<"a">>]

\* the order of the rules as the claim gives it, and as apply_heuristic tries them
ClaimedOrder ==
  << "settings", "snippet", "clear", "replace", "ignore", "undo",
     "advanced_delete", "formatting", "advanced_insert", "content" >>

CascadeOrder ==
  << "settings", "snippet", "clear", "replace", "ignore",
     "advanced_delete", "formatting", "advanced_insert", "undo", "content" >>

\* the utterance has the wording of the rule
MatchesRule(rule, utterance) ==
  LET raw == _normalize_spaces(utterance)
      command_text == _strip_command_preface(raw)
  IN  CASE rule = "settings" -> _detect_setting_command(raw).type # "none"
        [] rule = "snippet" -> _resolve_snippet(raw) # <<>>
        [] rule = "clear" -> ClearMatches(command_text)
        [] rule = "replace" -> ReplaceMatches(command_text)
        [] rule = "ignore" -> IgnoreTrailingMatches(command_text) \/ IgnoreMatches(command_text)
        [] rule = "undo" -> UndoMatches(command_text)
        [] rule = "advanced_delete" ->
             \E verb \in {"undo", "delete"} :
               \/ Contains(command_text, Ph(<<verb, "last", "sentence">>))
               \/ Contains(command_text,
                           Ph(<<IF verb = "undo" THEN "undo" ELSE "remove", "last", "paragraph">>))
        [] rule = "formatting" ->
             \E k \in 1..Len(FormatPhrases) : Contains(command_text, FormatPhrases[k])
        [] rule = "advanced_insert" -> InsertAfterMatch(command_text) # <<>>
        [] OTHER -> TRUE

\* the transcript holds something for an advanced command to act on
HasWork(rule, m, utterance) ==
  LET command_text == _strip_command_preface(_normalize_spaces(utterance))
      found == InsertAfterMatch(command_text)
  IN  CASE rule = "advanced_delete" -> m.output_text # <<>> /\ m.segments # <<>>
        [] rule = "formatting" -> m.output_text # <<>> /\ m.segments # <<>>
        [] rule = "advanced_insert" ->
             /\ m.output_text # <<>>
             /\ _normalize_spaces(found[1]) # <<>>
             /\ Contains(m.output_text, LowSeq(_normalize_spaces(found[2])))
        [] OTHER -> TRUE

FirstIn(order, applies(_)) ==
  order[CHOOSE k \in 1..Len(order) :
          applies(order[k]) /\ \A j \in 1..(k - 1) : ~applies(order[j])]

Prefixes(segs) == { SubSeq(segs, 1, k) : k \in 0..Len(segs) }

\* C29 (as claimed): after sync_state_to_output(prev, new) an empty new leaves
\* no segment; if new starts with prev the list is the old segments and one
\* more segment, the appended suffix; if prev starts with new the list is the
\* old segments without some trailing ones and joins to new; otherwise the
\* list is [new].
C29_SyncCases ==
  (ret.op = "sync_state_to_output" /\ ret.args # <<>>) =>
    LET old == ret.args.m.segments
        prev == ret.args.prev_output
        new == ret.args.new_output
        res == ret.result.m.segments
        suffix == Strip(_normalize_spaces(Drop(new, Len(prev))))
    IN  IF new = <<>> THEN res = <<>>
        ELSE IF StartsWith(new, prev) THEN suffix # <<>> /\ res = Append(old, suffix)
        ELSE IF StartsWith(prev, new)
             THEN res \in Prefixes(old) /\ _join_segments(res) = new
        ELSE res = <<new>>

\* C29 (amended): after sync_state_to_output(prev, new) the text is new and an
\* empty new leaves no segment.  Otherwise the list is first taken to be [prev]
\* (nothing for an empty prev) when the old segments do not join to prev.  If
\* new starts with prev, a suffix that is not blank is added as one segment,
\* space-normalised and stripped, and a blank suffix leaves the list as it is
\* ([new] when it is empty).  Else if prev starts with new, the list is the
\* longest run of leading segments that joins to new, and [new] when there is
\* none.  Otherwise the list is [new].
C29_SyncCasesWithFallbacks ==
  (ret.op = "sync_state_to_output" /\ ret.args # <<>>) =>
    LET old == ret.args.m.segments
        prev == ret.args.prev_output
        new == ret.args.new_output
        res == ret.result.m.segments
        base == IF _join_segments(old) = prev THEN old
                ELSE IF prev = <<>> THEN <<>> ELSE <<prev>>
        suffix == Strip(_normalize_spaces(Drop(new, Len(prev))))
        kept == { p \in Prefixes(base) : p # <<>> /\ _join_segments(p) = new }
    IN  /\ ret.result.m.output_text = new
        /\ IF new = <<>> THEN res = <<>>
           ELSE IF StartsWith(new, prev)
                THEN IF suffix # <<>> THEN res = Append(base, suffix)
                     ELSE IF base # <<>> THEN res = base
                     ELSE res = <<new>>
           ELSE IF StartsWith(prev, new)
                THEN IF kept # {}
                     THEN res \in kept /\ \A p \in kept : Len(p) <= Len(res)
                     ELSE res = <<new>>
           ELSE res = <<new>>

\* a refinement that cuts "Foo bar." down to "Foo": no run of leading segments
\* joins to it and the list becomes ["Foo"]; and one that cuts "Foo. Bar." down
\* to "Foo." pops the last segment
C29_Witness ==
  /\ ret.op = "sync_state_to_output" /\ ret.args # <<>>
  /\ ret.args.m.segments = << <<"^foo", SP, "bar", ".">> >>
  /\ ret.args.prev_output = ret.args.m.output_text
  /\ ret.args.new_output = <<"^foo">>
  /\ ret.result.m.segments = << <<"^foo">> >>

\* the window sizes k in 1..3 at which the last k tokens of prev are the first
\* k tokens of seg
Overlaps(prev, seg) ==
  { k \in 1..3 :
      /\ k <= Len(Split(prev)) /\ k <= Len(Split(seg))
      /\ SubSeq(Split(prev), Len(Split(prev)) - k + 1, Len(Split(prev)))
           = SubSeq(Split(seg), 1, k) }

\* the segment without its first k tokens, k the largest overlap (0 when none)
WithoutOverlap(prev, seg) ==
  IF Overlaps(prev, seg) = {} THEN seg
  ELSE LET k == CHOOSE x \in Overlaps(prev, seg) : \A y \in Overlaps(prev, seg) : y <= x
       IN  JoinSp(SubSeq(Split(seg), k + 1, Len(Split(seg))))

\* C31: _dedupe_overlap drops from the segment exactly the k tokens of the
\* largest window k in {3,2,1} whose tokens end output_text and begin the
\* segment, and returns the segment whole when no window matches; a content
\* utterance is appended as that remainder, and when nothing remains nothing
\* is appended and the action is ignore.
C31_DedupeDropsLargestOverlap ==
  /\ ret.op = "_dedupe_overlap" =>
       ret.result.segment = WithoutOverlap(ret.args.prev_output, ret.args.segment)
  /\ (ret.op = "apply_heuristic" /\ ret.result.rule = "content") =>
       LET m == ret.args.m
           segment == _normalize_segment(
                        _apply_personal_dictionary(m.store,
                          _apply_inline_corrections(_normalize_spaces(ret.args.utterance)),
                          NoApp), NoConf)
           rest == WithoutOverlap(m.output_text, segment)
       IN  IF rest = <<>>
           THEN ret.result.action = "ignore" /\ ret.result.m = m
           ELSE /\ ret.result.action = "append"
                /\ ret.result.m.segments = Append(m.segments, rest)

\* "foo foo bar" after "bar foo foo": windows 1 and 2 both match and the two
\* tokens of window 2 are dropped; "bar. foo" said after "Foo. Bar." is
\* appended as "Foo."
C31_Witness ==
  \/ /\ ret.op = "_dedupe_overlap"
     /\ ret.args.prev_output = Ph(<<"bar", "foo", "foo">>)
     /\ ret.args.segment = Ph(<<"foo", "foo", "bar">>)
     /\ Overlaps(ret.args.prev_output, ret.args.segment) = {1, 2}
     /\ ret.result.segment = <<"bar">>
  \/ /\ ret.op = "apply_heuristic"
     /\ ret.args.utterance = <<"bar", ".", SP, "foo">>
     /\ Len(ret.args.m.segments) = 2
     /\ ret.result.m.segments = Append(ret.args.m.segments, <<"^foo", ".">>)

\* the clause before the marker, and whether the remainder after the marker
\* shares a significant token with it
PreviousClause == ret.args.first \o <<".">>

\* a significant token: a word of more than two characters that is no stop word
SignificantIn(t) ==
  { w \in Vocab \ (ShortWords \cup StopWords) : \E i \in 1..Len(t) : Low(t[i]) = w }

SharesToken == SignificantIn(PreviousClause) \cap SignificantIn(ret.args.remainder) # {}

\* C32 (as claimed): the remainder of a clause that begins with a correction
\* marker replaces the previous clause when the two share a significant token;
\* when they share none the utterance is left as it is.
C32_MarkerReplacesOrKeeps ==
  ret.op = "_apply_inline_corrections" =>
    IF SharesToken THEN ret.result.text = CapFirstAlpha(ret.args.remainder)
    ELSE ret.result.text = ret.args.text

\* C32 (amended): unless the remainder is a "not X, Y" correction that rewrites
\* the previous clause, the remainder replaces the previous clause when the
\* two share a significant token; a clause with nothing after its marker is
\* dropped; otherwise the utterance is left as it is.
C32_MarkerReplacesDropsOrKeeps ==
  ret.op = "_apply_inline_corrections" =>
    \/ _rewrite_previous_clause(PreviousClause, ret.args.remainder) # <<>>
    \/ IF SharesToken THEN ret.result.text = CapFirstAlpha(ret.args.remainder)
       ELSE IF ret.args.remainder = <<>> THEN ret.result.text = PreviousClause
       ELSE ret.result.text = ret.args.text

\* "i like it. sorry, like that." shares only a stop word and is kept whole;
\* "foo bar. no, bar foo." becomes "Bar foo."
C32_Witness ==
  /\ ret.op = "_apply_inline_corrections"
  /\ \/ /\ ret.args.first = Ph(<<"i", "like", "it">>)
        /\ ret.args.remainder = <<"like", SP, "that", ".">>
        /\ ~SharesToken
        /\ ret.result.text = ret.args.text
     \/ /\ ret.args.first = Ph(<<"foo", "bar">>)
        /\ ret.args.remainder = <<"bar", SP, "foo", ".">>
        /\ SharesToken
        /\ ret.result.text = <<"^bar", SP, "foo", ".">>

\* the canned text of the snippet an utterance "insert|snippet|shortcut <name>"
\* names, <<>> when it names none
NamedSnippet(utterance) ==
  LET n == _normalize_spaces(utterance)
      hits == { i \in 1..Len(Snippets) : Snippets[i].key = LowSeq(Drop(n, 2)) }
  IN  IF Len(n) >= 3 /\ Low(n[1]) \in {"insert", "snippet", "shortcut"} /\ IsSpace(n[2])
         /\ hits # {}
      THEN Snippets[CHOOSE i \in hits : TRUE].to ELSE <<>>

\* C33: an utterance "insert <name>", "snippet <name>" or "shortcut <name>"
\* whose name is a key of the snippets map appends the snippet's text as one
\* new segment and returns append.
C33_SnippetAppended ==
  (ret.op = "apply_heuristic" /\ NamedSnippet(ret.args.utterance) # <<>>) =>
    /\ ret.result.action = "append"
    /\ ret.result.m.segments
         = Append(ret.args.m.segments, NamedSnippet(ret.args.utterance))

\* the utterance has the wording of an advanced command, the transcript holds
\* nothing for it to act on, and no other command rule takes the utterance first
InapplicableCommand(m, utterance) ==
  LET applies(rule) == MatchesRule(rule, utterance) /\ HasWork(rule, m, utterance)
  IN  /\ \E rule \in {"advanced_delete", "formatting", "advanced_insert"} :
           MatchesRule(rule, utterance) /\ ~HasWork(rule, m, utterance)
      /\ FirstIn(CascadeOrder, applies) \in {"undo", "content"}

\* C34: a formatting, advanced delete or "insert X after Y" command that cannot
\* be applied (empty transcript, target phrase absent) returns ignore and
\* leaves the transcript as it was.
C34_InapplicableCommandIgnored ==
  (ret.op = "apply_heuristic" /\ InapplicableCommand(ret.args.m, ret.args.utterance)) =>
    /\ ret.result.action = "ignore"
    /\ ret.result.m = ret.args.m

\* C35: whenever smart_update_state returns the action clear, by the clear
\* command, by "undo last sentence" on a transcript of one sentence, or by a
\* reply of the external service with action clear and any text, new_output
\* is empty and the state has no segment and no text.
C35_ClearEmptiesState ==
  (ret.op = "smart_update_state" /\ ret.result.action = "clear") =>
    /\ ret.result.new_output = <<>>
    /\ ret.result.m.segments = <<>>
    /\ ret.result.m.output_text = <<>>

\* the service answers a plain sentence with the text "Bar." and action clear
C35_Witness ==
  /\ ret.op = "smart_update_state"
  /\ ret.args.utterance = <<"foo">>
  /\ Len(ret.args.m.segments) = 2
  /\ ret.args.resp2 = Json(<<"^bar", ".">>, <<"clear">>)
  /\ ret.result.path = "llm"
  /\ ret.result.action = "clear"
  /\ ret.result.m.segments = <<>>

\* the last call was an undo with no remainder in heuristic mode and the call
\* before it appended a content utterance in heuristic mode
UndoAfterAppend ==
  /\ ret.op = "smart_update_state" /\ ret.mode = "heuristic"
  /\ ret.path = "heuristic" /\ ret.action = "undo"
  /\ RuleOf(ret.pre, ret.heard) = "undo"
  /\ Len(observed) = 2 /\ observed[1].appended

\* C36: in heuristic mode a content utterance that is appended, followed at
\* once by an undo command with no remainder, leaves segments and output_text
\* as they were before the append.
C36_UndoRestoresAppend ==
  UndoAfterAppend =>
    /\ segments = observed[1].segments
    /\ output_text = observed[1].output_text

\* ------------------------------------------------------------------------
\* Concurrent callers of one TranscriptState
\* ------------------------------------------------------------------------
ConcUtterances == { <<"foo">>, Ph(<<"scratch", "that">>), Ph(<<"clear", "all">>) }

ConcResponses(prev) ==
  { NoResult,
    Json(prev \o <<SP, "^bar", ".">>, <<"append">>),
    Json(<<"foo", SP>>, <<"undo">>) }

\* a worker thread calls smart_update_state or sync_state_to_output, or the key
\* handler is about to reset the transcript
Call(t) ==
  /\ pc[t] = "idle"
  /\ pc' = [pc EXCEPT ![t] = "waiting"]
  /\ UNCHANGED <<segments, output_text, store, profile, ret, lock, seen, observed, adaptive_cache, sessions, health, main, streamer>>

\* fault: the body is entered without waiting for the lock
AcquireUnguarded(t) ==
  /\ pc[t] = "waiting"
  /\ lock' = t
  /\ pc' = [pc EXCEPT ![t] = "locked"]
  /\ seen' = [seen EXCEPT ![t] = <<segments, output_text>>]
  /\ UNCHANGED <<segments, output_text, store, profile, ret, observed, adaptive_cache, sessions, health, main, streamer>>

\* with state.lock: entry
Acquire(t) ==
  /\ pc[t] = "waiting"
  /\ lock = Free
  /\ lock' = t
  /\ pc' = [pc EXCEPT ![t] = "locked"]
  /\ seen' = [seen EXCEPT ![t] = <<segments, output_text>>]
  /\ UNCHANGED <<segments, output_text, store, profile, ret, observed, adaptive_cache, sessions, health, main, streamer>>

\* the body of smart_update_state
LockedSmartUpdate(t) ==
  /\ pc[t] = "locked"
  /\ \E utterance \in ConcUtterances, mode \in Modes :
       \E resp2 \in IF mode = "llm" THEN ConcResponses(output_text) ELSE {NoResult} :
         \E r \in {smart_update_state(M, utterance, mode, TRUE, NoConf, NoApp, NoResult, resp2)} :
           /\ WithinBounds(r.m)
           /\ Install(r.m)
           /\ adaptive_cache' = r.m.store
  /\ pc' = [pc EXCEPT ![t] = "done"]
  /\ UNCHANGED <<ret, lock, seen, observed, sessions, health, main, streamer>>

\* the body of sync_state_to_output
LockedSync(t) ==
  /\ pc[t] = "locked"
  /\ \E prev_output \in {output_text, <<>>}, new_output \in SyncTexts(output_text) :
       \E m \in {sync_state_to_output(M, prev_output, new_output)} :
         /\ WithinBounds(m)
         /\ Install(m)
  /\ pc' = [pc EXCEPT ![t] = "done"]
  /\ UNCHANGED <<ret, lock, seen, observed, adaptive_cache, sessions, health, main, streamer>>

\* the body of the per-recording reset
LockedReset(t) ==
  /\ pc[t] = "locked"
  /\ Install(reset_transcript(M))
  /\ pc' = [pc EXCEPT ![t] = "done"]
  /\ UNCHANGED <<ret, lock, seen, observed, adaptive_cache, sessions, health, main, streamer>>

\* the body of smart_update_state raises: an utterance that is not a str makes
\* the first statements under the lock (the dictionary substitution and the
\* regular expressions after it) raise TypeError before anything is mutated
LockedRaise(t) ==
  /\ pc[t] = "locked"
  /\ pc' = [pc EXCEPT ![t] = "raised"]
  /\ UNCHANGED <<segments, output_text, store, profile, ret, lock, seen, observed, adaptive_cache, sessions, health, main, streamer>>

\* fault: lock.acquire() ... lock.release() without try/finally, so the
\* release is skipped when the body raises
Release_skipped_on_exception(t) ==
  /\ pc[t] \in {"done", "raised"}
  /\ lock' = IF pc[t] = "done" THEN Free ELSE lock
  /\ pc' = [pc EXCEPT ![t] = "idle"]
  /\ seen' = [seen EXCEPT ![t] = <<>>]
  /\ observed' = << [thread |-> t, exit |-> pc[t]] >>
  /\ UNCHANGED <<segments, output_text, store, profile, ret, adaptive_cache, sessions, health, main, streamer>>

\* with state.lock: exit, by a return or by an exception leaving the block;
\* observed keeps how the last finished call left it
Release(t) ==
  /\ pc[t] \in {"done", "raised"}
  /\ lock' = Free
  /\ pc' = [pc EXCEPT ![t] = "idle"]
  /\ seen' = [seen EXCEPT ![t] = <<>>]
  /\ observed' = << [thread |-> t, exit |-> pc[t]] >>
  /\ UNCHANGED <<segments, output_text, store, profile, ret, adaptive_cache, sessions, health, main, streamer>>

NextConc ==
  \E t \in Threads :
    \/ Call(t)
    \/ Acquire(t)
    \/ LockedSmartUpdate(t)
    \/ LockedSync(t)
    \/ LockedReset(t)
    \/ LockedRaise(t)
    \/ Release(t)

SpecConc == Init /\ [][NextConc]_vars

\* C8: for any interleaving of concurrent smart_update_state and
\* sync_state_to_output calls, each call runs under the lock of the state: only
\* the holder is inside a body, and nobody reads or mutates segments or
\* output_text between a call's entry and its own mutation, so the calls take
\* effect one after another in the order in which they took the lock.
C8_CallsAreSerialized ==
  /\ \A t \in Threads : pc[t] \in {"locked", "done"} => lock = t
  /\ \A t \in Threads : pc[t] = "locked" => seen[t] = <<segments, output_text>>

C8_Witness ==
  \E t \in Threads, u \in Threads :
    /\ t # u
    /\ pc[t] = "done" /\ pc[u] = "waiting"
    /\ seen[t] # <<segments, output_text>>
    /\ Len(segments) >= 2

\* ------------------------------------------------------------------------
\* Several sessions, each with its own TranscriptState
\* ------------------------------------------------------------------------
\* the keys of the states dict of the evaluation runner
Sessions == {1, 2}

MaxSessionLen == 4   \* per-session transcripts longer than this are not explored

\* the application whose window a session dictates into
SessionApp(s) == IF s = 1 THEN NoApp ELSE "editor"

SessionUtterances ==
  { <<"foo">>, <<"all">>, Ph(<<"scratch", "that">>),
    Ph(<<"replace", "all", "with", "foo">>) }

\* a TranscriptState whose segments field refers to one list for all instances
TranscriptState_shared_list(s) == [segments |-> 1, output_text |-> <<>>]

\* TranscriptState(): default_factory=list gives the s-th instance a list of
\* its own; segments holds the reference to it
TranscriptState(s) == [segments |-> s, output_text |-> <<>>]

\* the state object of session s as smart_update_state sees it, together with
\* the files every session of the process reads
SessionView(ss, s) ==
  [segments |-> ss.lists[ss.state[s].segments],
   output_text |-> ss.state[s].output_text,
   store |-> store, profile |-> profile]

\* segments and output_text of session s
Transcript(ss, s) ==
  [segments |-> ss.lists[ss.state[s].segments], output_text |-> ss.state[s].output_text]

\* a list no state refers to, for the assignments "state.segments = [...]"
\* (the list of session s itself when no other state refers to it)
NewList(ss, s) ==
  IF \E o \in Sessions \ {s} : ss.state[o].segments = ss.state[s].segments
  THEN CHOOSE l \in Sessions : \A o \in Sessions : ss.state[o].segments # l
  ELSE ss.state[s].segments

\* whether the call went through the assignment of a new list in
\* _handle_replace_pattern; every other path of the heuristic changes the list
\* in place (append, pop, clear)
AssignsSegments(r) ==
  /\ r.path = "heuristic" /\ r.action = "undo_append"
  /\ \E c \in {_strip_command_preface(_normalize_spaces(r.heard))} :
       ~ClearMatches(c) /\ ReplaceMatches(c)

\* the state objects after the call on session s has stored r.m
StoreSession(ss, s, r) ==
  With([l \in {IF AssignsSegments(r) THEN NewList(ss, s) ELSE ss.state[s].segments} |->
    [state |-> [ss.state EXCEPT ![s] = [segments |-> l, output_text |-> r.m.output_text]],
     lists |-> [ss.lists EXCEPT ![l] = r.m.segments]]])

InitSessions ==
  /\ segments = M0.segments
  /\ output_text = M0.output_text
  /\ store = M0.store
  /\ profile = M0.profile
  /\ ret = NoRet
  /\ lock = Free
  /\ pc = [t \in Threads |-> "idle"]
  /\ seen = [t \in Threads |-> <<>>]
  /\ observed = <<>>
  /\ adaptive_cache = M0.store
  /\ sessions = [state |-> [s \in Sessions |-> TranscriptState(s)],
                 lists |-> [s \in Sessions |-> <<>>]]
  /\ health = StreamingHealth
  /\ main = AppStart
  /\ streamer = StreamingTranscriber

\* one call of smart_update_state on the state of session s; the calls of
\* different sessions hold different locks and come in any order
SessionUpdate(s) ==
  /\ ret.op = "none"
  /\ \E utterance \in SessionUtterances :
       \E r \in {smart_update_state(SessionView(sessions, s), utterance, "heuristic", FALSE,
                                    NoConf, SessionApp(s), NoResult, NoResult)} :
         /\ WithinBounds(r.m)
         /\ Len(r.m.output_text) <= MaxSessionLen
         /\ sessions' = StoreSession(sessions, s, r)
         /\ store' = r.m.store
         /\ profile' = r.m.profile
         /\ adaptive_cache' = r.m.store
         /\ ret' = [NoRet EXCEPT !.op = "smart_update_state", !.utterance = utterance,
                                 !.mode = "heuristic", !.app_id = SessionApp(s),
                                 !.action = r.action, !.path = r.path]
  /\ UNCHANGED <<segments, output_text, lock, pc, seen, observed, health, main, streamer>>

NextSessions == (\E s \in Sessions : SessionUpdate(s)) \/ Return

SpecSessions == InitSessions /\ [][NextSessions]_vars

\* the step is a call on the state of session s
CallOn(s) == ret.op = "none" /\ ret'.op = "smart_update_state" /\ ret'.app_id = SessionApp(s)

\* C20 as stated: sessions with separate TranscriptState instances share only
\* the dictionary files: a call on one session leaves the segments and
\* output_text of every other session unchanged and changes no in-process data
\* that another session uses; the adaptive dictionary cache of the module,
\* which every call reads, is such data.
C20_SessionsShareOnlyFiles ==
  [][\A s \in Sessions : CallOn(s) =>
       /\ \A o \in Sessions \ {s} : Transcript(sessions', o) = Transcript(sessions, o)
       /\ adaptive_cache' = adaptive_cache]_vars

\* C20 (amended): under any interleaving of the calls, a call on one session
\* leaves the segments and output_text of every other session unchanged (the
\* sessions do share, besides the files, the module-level read caches of the
\* files, which a learning call on one session replaces for all of them).
C20_SessionsKeepOwnTranscript ==
  [][\A s \in Sessions : CallOn(s) =>
       \A o \in Sessions \ {s} : Transcript(sessions', o) = Transcript(sessions, o)]_vars

C20_Witness ==
  /\ ret.op = "smart_update_state" /\ ret.app_id = SessionApp(1)
  /\ ret.action = "undo_append" /\ ret.utterance = Ph(<<"replace", "all", "with", "foo">>)
  /\ Transcript(sessions, 2).output_text # <<>>
  /\ Transcript(sessions, 2).output_text # Transcript(sessions, 1).output_text
  /\ adaptive_cache.global # <<>>

\* ------------------------------------------------------------------------
\* C37: command classification and the adaptive dictionary
\* ------------------------------------------------------------------------
\* the transcript state of a run whose replace commands taught nothing
Untaught(m) == [m EXCEPT !.store = M0.store]

\* what the utterance is treated as: the clear, undo or ignore command, or
\* anything else
TreatedAs(m, utterance, app_id) ==
  LET rule == RuleOf(m, _apply_personal_dictionary(m.store, utterance, app_id))
  IN  IF rule \in {"clear", "undo", "ignore"} THEN rule ELSE "other"

\* key is a trigger that the dictionary consulted for app_id substitutes
\* (learned ADAPTIVE_MIN_COUNT times or more) and it occurs in the utterance
TriggerOccurs(m, utterance, app_id) ==
  LET consulted == IF app_id = NoApp THEN m.store.global
                   ELSE m.store.global \o m.store.app
      t == LowSeq(utterance)
  IN  \E e \in 1..Len(consulted) :
        /\ consulted[e].count >= ADAPTIVE_MIN_COUNT
        /\ consulted[e].key # <<>>
        /\ \E i \in 1..Len(t) :
             /\ i + Len(consulted[e].key) - 1 <= Len(t)
             /\ SubSeq(t, i, i + Len(consulted[e].key) - 1) = consulted[e].key

HeuristicCall == ret.op = "smart_update_state" /\ ret.mode = "heuristic"

C38_LockReleasedOnEveryExit ==
  /\ \A t \in Threads : pc[t] \in {"idle", "waiting"} => lock # t
  /\ lock # Free => lock \in Threads /\ pc[lock] \in {"locked", "done", "raised"}

\* a call left the block by an exception and a later call of the other thread
\* is inside its body
C38_Witness ==
  \E t \in Threads, u \in Threads :
    /\ t # u
    /\ observed = << [thread |-> t, exit |-> "raised"] >>
    /\ pc[t] = "idle"
    /\ pc[u] = "locked" /\ lock = u

\* ------------------------------------------------------------------------
\* The hotkey handlers, the processing worker and the shutdown of main()
\* (src/app.py). The handlers run one at a time on the hotkey listener's
\* thread; each recording's worker and _request_shutdown run on threads of
\* their own, so their steps interleave with the handlers'.
\* ------------------------------------------------------------------------
MaxPresses == 3   \* hotkey presses explored

AppUtterances == { <<"foo">>, Ph(<<"scratch", "that">>) }

KeepTranscript == UNCHANGED <<segments, output_text, store, profile, adaptive_cache>>
KeepOthers == UNCHANGED <<ret, lock, pc, seen, observed, sessions, health, streamer>>

\* workers that have not yet reached processing_event.clear()
LiveWorkers == { i \in 1..Len(main.workers) : main.workers[i] # "exited" }

\* HotkeyManager._handle_press: the key goes down and on_press is entered
HandlePress ==
  /\ main.handler = "idle" /\ ~main.pressed /\ main.shutdown # "done"
  /\ main.started < MaxPresses
  /\ main' = [main EXCEPT !.pressed = TRUE, !.handler = "press_shutdown",
                          !.started = @ + 1]
  /\ KeepTranscript /\ KeepOthers

\* on_press: if shutdown_event.is_set(): return
OnPressCheckShutdown ==
  /\ main.handler = "press_shutdown"
  /\ main' = [main EXCEPT !.handler = IF main.shutdown_event THEN "idle"
                                      ELSE "press_running"]
  /\ KeepTranscript /\ KeepOthers

\* on_press: if recorder._running.is_set(): return
OnPressCheckRunning ==
  /\ main.handler = "press_running"
  /\ main' = [main EXCEPT !.handler = IF main.recording THEN "idle"
                                      ELSE "press_processing"]
  /\ KeepTranscript /\ KeepOthers

\* fault: on_press does not look at processing_event
OnPressCheckProcessing_skipped ==
  /\ main.handler = "press_processing"
  /\ main' = [main EXCEPT !.handler = "press_reset"]
  /\ KeepTranscript /\ KeepOthers

\* on_press: if processing_event.is_set(): show "Still processing previous
\* recording..." and return
OnPressCheckProcessing ==
  /\ main.handler = "press_processing"
  /\ main' = [main EXCEPT !.handler = IF main.processing_event THEN "busy"
                                      ELSE "press_reset"]
  /\ KeepTranscript /\ KeepOthers

\* on_press returns after the "Still processing" message
OnPressBusy ==
  /\ main.handler = "busy"
  /\ main' = [main EXCEPT !.handler = "idle"]
  /\ KeepTranscript /\ KeepOthers

\* on_press: with transcript_state.lock: segments.clear(); output_text = ""
\* (SMART_EDIT and RESET_TRANSCRIPT_EACH_RECORDING, their defaults)
OnPressReset ==
  /\ main.handler = "press_reset"
  /\ Install(reset_transcript(M))
  /\ main' = [main EXCEPT !.handler = "press_start"]
  /\ UNCHANGED adaptive_cache
  /\ KeepOthers

\* on_press: recorder.start(...); the input stream opens, or every sample rate
\* fails and the recorder thread clears _running
OnPressStart ==
  /\ main.handler = "press_start"
  /\ \E opened \in BOOLEAN :
       main' = [main EXCEPT !.recording = opened, !.handler = "idle"]
  /\ KeepTranscript /\ KeepOthers

\* HotkeyManager._handle_release: the key goes up and on_release is entered
HandleRelease ==
  /\ main.handler = "idle" /\ main.pressed /\ main.shutdown # "done"
  /\ main' = [main EXCEPT !.pressed = FALSE, !.handler = "release_shutdown"]
  /\ KeepTranscript /\ KeepOthers

\* on_release: if shutdown_event.is_set(): return
OnReleaseCheckShutdown ==
  /\ main.handler = "release_shutdown"
  /\ main' = [main EXCEPT !.handler = IF main.shutdown_event THEN "idle"
                                      ELSE "release_running"]
  /\ KeepTranscript /\ KeepOthers

\* on_release: if not recorder._running.is_set(): return
OnReleaseCheckRunning ==
  /\ main.handler = "release_running"
  /\ main' = [main EXCEPT !.handler = IF main.recording THEN "release_stop"
                                      ELSE "idle"]
  /\ KeepTranscript /\ KeepOthers

\* on_release: recorder.stop(path) clears _running and returns the audio, or
\* raises ("No audio recorded") and on_release returns
OnReleaseStop ==
  /\ main.handler = "release_stop"
  /\ \E saved \in BOOLEAN :
       main' = [main EXCEPT !.recording = FALSE,
                            !.handler = IF saved THEN "release_spawn" ELSE "idle"]
  /\ KeepTranscript /\ KeepOthers

\* on_release: processing_event.set(); threading.Thread(target=_process).start()
OnReleaseSpawn ==
  /\ main.handler = "release_spawn"
  /\ main' = [main EXCEPT !.processing_event = TRUE,
                          !.workers = Append(@, "check"),
                          !.handler = "idle"]
  /\ KeepTranscript /\ KeepOthers

\* _process: if shutdown_event.is_set(): return
ProcessCheckShutdown(w) ==
  /\ w <= Len(main.workers)
  /\ main.workers[w] = "check"
  /\ main' = [main EXCEPT !.workers[w] = IF main.shutdown_event THEN "finally"
                                         ELSE "transcribe"]
  /\ KeepTranscript /\ KeepOthers

\* _process: the transcription returns a text, or raises and the except
\* clause reports the error
ProcessTranscribe(w) ==
  /\ w <= Len(main.workers)
  /\ main.workers[w] = "transcribe"
  /\ \E raised \in BOOLEAN :
       main' = [main EXCEPT !.workers[w] = IF raised THEN "finally" ELSE "apply"]
  /\ KeepTranscript /\ KeepOthers

\* _process: smart_update_state(transcript_state, text, mode="heuristic",
\* allow_llm=False), and the rest of the try block
ProcessApply(w) ==
  /\ w <= Len(main.workers)
  /\ main.workers[w] = "apply"
  /\ \E text \in AppUtterances :
       \E r \in {smart_update_state(M, text, "heuristic", FALSE, NoConf, NoApp,
                                    NoResult, NoResult)} :
         /\ WithinBounds(r.m)
         /\ Install(r.m)
         /\ adaptive_cache' = r.m.store
  /\ main' = [main EXCEPT !.workers[w] = "finally",
                          !.log = <<[worker |-> w, others |-> LiveWorkers \ {w}]>>]
  /\ KeepOthers

\* _process: finally: processing_event.clear()
ProcessFinally(w) ==
  /\ w <= Len(main.workers)
  /\ main.workers[w] = "finally"
  /\ main' = [main EXCEPT !.processing_event = FALSE, !.workers[w] = "exited"]
  /\ KeepTranscript /\ KeepOthers

\* _request_shutdown: if shutdown_event.is_set(): return; shutdown_event.set()
RequestShutdown ==
  /\ main.shutdown = "idle"
  /\ main' = [main EXCEPT !.shutdown_event = TRUE, !.shutdown = "clear"]
  /\ KeepTranscript /\ KeepOthers

\* _request_shutdown: processing_event.clear()
ShutdownClear ==
  /\ main.shutdown = "clear"
  /\ main' = [main EXCEPT !.processing_event = FALSE, !.shutdown = "stop"]
  /\ KeepTranscript /\ KeepOthers

\* _request_shutdown: _stop_active_recording(); hotkey_manager.stop()
ShutdownStop ==
  /\ main.shutdown = "stop"
  /\ main' = [main EXCEPT !.recording = FALSE, !.shutdown = "done"]
  /\ KeepTranscript /\ KeepOthers

NextApp ==
  \/ HandlePress
  \/ OnPressCheckShutdown
  \/ OnPressCheckRunning
  \/ OnPressCheckProcessing
  \/ OnPressBusy
  \/ OnPressReset
  \/ OnPressStart
  \/ HandleRelease
  \/ OnReleaseCheckShutdown
  \/ OnReleaseCheckRunning
  \/ OnReleaseStop
  \/ OnReleaseSpawn
  \/ \E w \in 1..MaxPresses :
       \/ ProcessCheckShutdown(w)
       \/ ProcessTranscribe(w)
       \/ ProcessApply(w)
       \/ ProcessFinally(w)
  \/ RequestShutdown
  \/ ShutdownClear
  \/ ShutdownStop

SpecApp == Init /\ [][NextApp]_vars

MaxStreamChunks == 2   \* chunks passed to queue_chunk

Pill == 0   \* the (None, None) task that stop() puts in the queue

\* start(): under _lock, return if running; otherwise set _running, reset the
\* health and start a worker thread
FreeWorkers(st) ==
  { w \in 1..Len(st.workers) : st.workers[w].at \in {"none", "exited"} }

start(st) ==
  IF st.running THEN st
  ELSE [st EXCEPT !.running = TRUE,
                  !.workers[CHOOSE w \in FreeWorkers(st) :
                              \A v \in FreeWorkers(st) : w <= v] =
                     [at |-> "loop", chunk |-> Pill]]

StreamStart ==
  /\ ~streamer.running
  /\ FreeWorkers(streamer) # {}
  /\ streamer' = start(streamer)
  /\ health' = reset(health)
  /\ UNCHANGED <<segments, output_text, store, profile, ret, lock, pc, seen, observed, adaptive_cache, sessions, main>>

\* stop(): under _lock, clear _running and put the poison pill; the join that
\* follows gives up after two seconds, so the worker may still be running
StreamStop ==
  /\ Len(streamer.queue) < MaxStreamChunks + MaxStarts
  /\ streamer' = [streamer EXCEPT !.running = FALSE, !.queue = Append(@, Pill)]
  /\ UNCHANGED <<segments, output_text, store, profile, ret, lock, pc, seen, observed, adaptive_cache, sessions, health, main>>

\* queue_chunk(chunk): start() unless running, then put the chunk
QueueChunk ==
  /\ streamer.queued < MaxStreamChunks
  /\ streamer.running \/ FreeWorkers(streamer) # {}
  /\ \E st \in {start(streamer)} :
       streamer' = [st EXCEPT !.queued = @ + 1,
                              !.queue = Append(@, streamer.queued + 1),
                              !.taken = Append(@, 0),
                              !.outcome = Append(@, <<>>)]
  /\ health' = IF streamer.running THEN health ELSE reset(health)
  /\ UNCHANGED <<segments, output_text, store, profile, ret, lock, pc, seen, observed, adaptive_cache, sessions, main>>

\* _worker_loop: while self._running
WorkerLoop(w) ==
  /\ w <= Len(streamer.workers)
  /\ streamer.workers[w].at = "loop"
  /\ streamer' = [streamer EXCEPT !.workers[w].at =
                    IF streamer.running THEN "get" ELSE "exited"]
  /\ UNCHANGED <<segments, output_text, store, profile, ret, lock, pc, seen, observed, adaptive_cache, sessions, health, main>>

\* _worker_loop: _task_queue.get(timeout=1.0): queue.Empty continues the
\* loop, the pill breaks out of it, a chunk goes to _process_chunk
WorkerGet(w) ==
  /\ w <= Len(streamer.workers)
  /\ streamer.workers[w].at = "get"
  /\ streamer' =
       IF streamer.queue = <<>>
       THEN [streamer EXCEPT !.workers[w].at = "loop"]
       ELSE IF Head(streamer.queue) = Pill
       THEN [streamer EXCEPT !.queue = Tail(@), !.workers[w].at = "exited"]
       ELSE [streamer EXCEPT !.queue = Tail(@),
                             !.workers[w] = [at |-> "process",
                                             chunk |-> Head(streamer.queue)],
                             !.taken[Head(streamer.queue)] = w]
  /\ UNCHANGED <<segments, output_text, store, profile, ret, lock, pc, seen, observed, adaptive_cache, sessions, health, main>>

\* _process_chunk: an attempt returns a text and record_success is called, or
\* every attempt fails and record_failure is called
WorkerProcess(w) ==
  /\ w <= Len(streamer.workers)
  /\ streamer.workers[w].at = "process"
  /\ \E ok \in BOOLEAN, error \in Errors :
       /\ health' = IF ok THEN record_success(health)
                    ELSE record_failure(health, error)
       /\ streamer' = [streamer EXCEPT
            !.workers[w] = [at |-> "loop", chunk |-> Pill],
            !.outcome[streamer.workers[w].chunk] =
               Append(@, IF ok THEN "success" ELSE "failure")]
  /\ UNCHANGED <<segments, output_text, store, profile, ret, lock, pc, seen, observed, adaptive_cache, sessions, main>>

WorkerStep(w) == WorkerLoop(w) \/ WorkerGet(w) \/ WorkerProcess(w)

NextStream ==
  \/ StreamStart
  \/ StreamStop
  \/ QueueChunk
  \/ \E w \in 1..MaxStarts :
       \/ WorkerLoop(w)
       \/ WorkerGet(w)
       \/ WorkerProcess(w)

SpecStream == Init /\ [][NextStream]_vars

\* every worker thread keeps being scheduled, and each transcription attempt
\* terminates
SpecStreamLive ==
  SpecStream /\ \A w \in 1..MaxStarts : WF_vars(WorkerStep(w))

\* ------------------------------------------------------------------------
\* C40: every queued chunk is processed
\* ------------------------------------------------------------------------
Processed(c) ==
  /\ streamer.queued >= c
  /\ streamer.taken[c] # 0
  /\ Len(streamer.outcome[c]) = 1

\* C40 as stated: every chunk passed to queue_chunk while the transcriber is
\* running is eventually taken by the worker and gets exactly one recorded
\* outcome, success or failure, also when it is queued after a stop() and a
\* new start(), given that the workers keep running and each transcription
\* attempt terminates.
C40_EveryChunkProcessed ==
  \A c \in 1..MaxStreamChunks : (streamer.queued >= c) ~> Processed(c)

====
